---- MODULE Spec2Model ----
(***************************************************************************)
(* Model of creator's unit/target dependency graph (src/creator/unit.py):  *)
(* the Workspace registry of units, the declarations (Target and Task) of  *)
(* each Unit, their one-shot setup, requires, build, export and extends.   *)
(*                                                                         *)
(* Script bodies and on_setup hooks are user code: while one of them runs  *)
(* (a "load_unit" or "hook" frame is on top of the call stack) it may call *)
(* any operation of the declaration API, so calls nest.  Every action runs *)
(* the core's code up to the next point where user code is in control.     *)
(***************************************************************************)
EXTENDS Naturals, Sequences, FiniteSets, TLC

\* ---------------------------------------------------------------- bounds
UnitIds == {"A", "B"}
Names == {"lib", "t", "run"}
MaxObj == 4        \* declaration objects alive at once
MaxDepth == 3      \* frames on the call stack
MaxDeps == 2       \* length of a dependency list
MaxEntries == 1    \* command entries of a Target under Spec and SpecExtends
MaxCmds == 3       \* command entries of a Target under SpecBuild and SpecNinja
MaxGen == 1        \* Unit objects created per unit identifier
MaxLive == 2       \* declarations alive at once under Spec (one unit)
MaxChain == 3      \* declarations alive at once under SpecExport
MaxLoads == 2      \* Unit objects created per identifier or file under SpecLoad
MaxScans == 2      \* directory scans of find_unit under SpecLoad
MaxList == 2       \* targets named on the command line under SpecGraph
StaticFiles == {"p"}
VarNames == {"X"}
AliasNames == {"self", "b"}

ObjIds == 1..MaxObj
None == 0

VARIABLES
  decl,         \* ObjIds -> the declaration object (BaseTarget fields)
  units,        \* Workspace.units: the registered unit identifiers, in dict order
  targets,      \* Unit.targets of the Unit object of each identifier, in dict order
  ugen,         \* how many Unit objects were created for each identifier
  stack,        \* the call stack: pending core calls and running user code
  exc,          \* the exception in flight ("none" when there is none)
  setup_order,  \* history: the objects in the order their do_setup body started
  events,       \* history: the calls the last step completed, with snapshots
  statics,      \* Workspace.statics: the file names of the registered static units
  ident_cache,  \* Workspace._ident_cache: the identifiers with a cached file path
  disk,         \* the identifiers a scan of the search path finds a unit file for
  scans,        \* history: how many times find_unit scanned the search path
  scope,        \* the variables bound in each Unit's scope and in the workspace's G
  aliases,      \* Unit.aliases of the Unit object of each identifier
  bare,         \* the identifiers whose unit file is there without the unit-name key
  metadata_cache,  \* Workspace._metadata_cache: what was read from each file, if anything
  main          \* the run of main: its position, its options and what it did so far

vars == <<decl, units, targets, ugen, stack, exc, setup_order, events,
          statics, ident_cache, disk, scans, scope, aliases, bare, metadata_cache, main>>

\* ------------------------------------------------------------- data model
NoUnit == [id |-> "", gen |-> 0]

NoDecl ==
  [live |-> FALSE, unit |-> NoUnit, name |-> "", kind |-> "", abstract |-> FALSE,
   is_setup |-> FALSE, dependencies |-> <<>>, command_data |-> <<>>,
   done |-> FALSE, setups |-> 0]

\* BaseTarget.__init__ / Target.__init__ / Task.__init__
NewDecl(unitobj, name, kind, abstract) ==
  [live |-> TRUE, unit |-> unitobj, name |-> name, kind |-> kind,
   abstract |-> abstract, is_setup |-> FALSE, dependencies |-> <<>>,
   command_data |-> <<>>, done |-> FALSE, setups |-> 0]

NoFrame ==
  [k |-> "", u |-> "", o |-> None, d |-> None, reqs |-> <<>>,
   b |-> "", inherit |-> FALSE, ui |-> 0, ti |-> 0, nu |-> 0, nt |-> 0, alias |-> ""]

\* The workspace's own scope, vars(workspace.G) (unit.py 1137-1138).
Global == "G"

\* No value bound, no alias.
NoVal == ""

\* The namespace of an unqualified name (python's None); the workspace
\* context's own namespace is the empty string (unit.py 1154-1155).
NoNs == "None"

\* Unit.__init__ (unit.py 294-305): a new Unit has no variable of the scripts
\* bound and the one alias self.
NewScope == [v \in VarNames |-> NoVal]

Bound(sc, n) == n \in DOMAIN sc /\ sc[n] # NoVal

\* The entries _create_scope puts into a unit's scope (unit.py 307-339): the
\* unit itself and its methods.  One name stands for them all.
ApiNames == {"define"}

\* The names UnitContext.__init__ binds (unit.py 1101-1102).
OwnNames == {"self", "ProjectPath"}

\* An expression node: the text a unit (or the command line) wrote, bound to a
\* context.
Expr(owner, ctx) == "text of " \o owner \o " in " \o ctx

Owners == UnitIds \cup {Global}

IsExpr(v) == \E o \in Owners, c \in Owners : v = Expr(o, c)

\* ExpressionNode.copy(context): the same text bound to the context ctx.
Copy(v, ctx) == Expr(CHOOSE o \in Owners : \E c \in Owners : v = Expr(o, c), ctx)

\* A bound method of unit u, or the Unit object u itself.
Api(u) == "api of " \o u

\* The scope of a new Unit (unit.py 294-305, 1098-1102): the unit's methods,
\* self and ProjectPath, and no variable of the scripts.
NewUnitScope(u) ==
  [k \in VarNames \cup ApiNames \cup OwnNames |->
     IF k \in ApiNames THEN Api(u)
     ELSE IF k = "self" THEN "text " \o u
     ELSE IF k = "ProjectPath" THEN "directory of " \o u
     ELSE NoVal]

NewAliases(u) == [al \in AliasNames |-> IF al = "self" THEN u ELSE NoVal]

UserFrames == {"hook", "load_unit", "static"}

\* A python dict as the sequence of its items in insertion order.
DictHas(dict, n) == \E i \in 1..Len(dict) : dict[i].name = n

DictGet(dict, n) == dict[CHOOSE i \in 1..Len(dict) : dict[i].name = n].obj

DictSet(dict, n, o) ==
  IF DictHas(dict, n)
  THEN [i \in 1..Len(dict) |-> IF dict[i].name = n THEN [name |-> n, obj |-> o] ELSE dict[i]]
  ELSE Append(dict, [name |-> n, obj |-> o])

DictValues(dict) == {dict[i].obj : i \in 1..Len(dict)}

Range(seq) == {seq[i] : i \in 1..Len(seq)}

SeqWithout(seq, x) == SelectSeq(seq, LAMBDA y : y # x)

Top(s) == s.stack[Len(s.stack)]

Pop(s) == [s EXCEPT !.stack = SubSeq(@, 1, Len(@) - 1)]

Push(s, f) == [s EXCEPT !.stack = Append(@, f)]

SetTop(s, f) == [s EXCEPT !.stack[Len(s.stack)] = f]

Snap(s) == [decl |-> s.decl, targets |-> s.targets]

\* History only: record that call op ended with res; pre is the snapshot at its start.
Ev(s, op, u, o, d, res, pre) ==
  [s EXCEPT !.events = Append(@, [op |-> op, u |-> u, o |-> o, d |-> d, res |-> res,
                                   pre |-> pre, post |-> Snap(s)])]

Raise(s, e) == [s EXCEPT !.exc = e]

UnitObj(s, u) == [id |-> u, gen |-> s.ugen[u]]

Live(s) == {o \in ObjIds : s.decl[o].live}

Free(s) == ObjIds \ Live(s)

MinOf(S) == CHOOSE x \in S : \A y \in S : x <= y

\* The identity of a new python object: any unused one.  The choice is made a
\* function of the unit and the name where possible, which keeps apart only
\* the states that differ in more than the numbering of the objects.
UnitIx == [A |-> 0, B |-> 1]

NameIx == [lib |-> 1, t |-> 2, run |-> 3]

NewObj(s, u, name) ==
  LET p == ((UnitIx[u] * 2 + NameIx[name] - 1) % MaxObj) + 1
  IN IF p \in Free(s) THEN p ELSE MinOf(Free(s))

\* ------------------------------------------------------ BaseTarget.do_setup
\* unit.py 779-801.  is_setup is set before the listeners, the initalizer and
\* on_setup run.  A Target made by Unit.target has on_setup = the decorated
\* function (user code: a hook frame); a Task made by Unit.task has none.
\* DoSetupUnguarded is do_setup without the guard of lines 789-790; C1 does not
\* hold of it.
DoSetupUnguarded(s, o) ==
  LET s1 == [s EXCEPT !.decl[o].is_setup = TRUE,
                      !.decl[o].setups = @ + 1,
                      !.setup_order = Append(@, o)]
      s2 == Ev(s1, "do_setup", "", o, None, "enter", Snap(s))
  IN IF s.decl[o].kind = "Target"
     THEN Push(s2, [NoFrame EXCEPT !.k = "hook", !.o = o])
     ELSE Ev([s2 EXCEPT !.decl[o].done = TRUE], "do_setup", "", o, None, "ok", Snap(s))

\* DoSetupMarksLate is do_setup without line 791, which sets is_setup before
\* the hooks run (C31 does not hold of it).
DoSetupMarksLate(s, o) ==
  IF s.decl[o].is_setup
  THEN Ev(Raise(s, "RuntimeError"), "do_setup", "", o, None, "RuntimeError", Snap(s))
  ELSE LET s1 == [s EXCEPT !.decl[o].setups = @ + 1,
                           !.setup_order = Append(@, o)]
           s2 == Ev(s1, "do_setup", "", o, None, "enter", Snap(s))
       IN IF s.decl[o].kind = "Target"
          THEN Push(s2, [NoFrame EXCEPT !.k = "hook", !.o = o])
          ELSE Ev([s2 EXCEPT !.decl[o].done = TRUE], "do_setup", "", o, None, "ok", Snap(s))

DoSetup(s, o) ==
  IF s.decl[o].is_setup
  THEN Ev(Raise(s, "RuntimeError"), "do_setup", "", o, None, "RuntimeError", Snap(s))
  ELSE LET s1 == [s EXCEPT !.decl[o].is_setup = TRUE,
                           !.decl[o].setups = @ + 1,
                           !.setup_order = Append(@, o)]
           s2 == Ev(s1, "do_setup", "", o, None, "enter", Snap(s))
       IN IF s.decl[o].kind = "Target"
          THEN Push(s2, [NoFrame EXCEPT !.k = "hook", !.o = o])
          ELSE Ev([s2 EXCEPT !.decl[o].done = TRUE], "do_setup", "", o, None, "ok", Snap(s))

\* Target.acccept_requirement (unit.py 867-869); BaseTarget's accepts everything.
Accepts(s, t, d) == s.decl[t].kind = "Target" => s.decl[d].kind = "Target"

\* ------------------------------------------------------ BaseTarget.requires
\* unit.py 753-777, for a requirement given as a declaration object.  When the
\* requirement has to be set up first, the call stays pending on the stack
\* (frame "requires") until do_setup returns; RequiresResume then appends.
\* RequiresAppendOnly leaves out the eager setup of lines 775-776 (C3 does not
\* hold of it), RequiresAnyUnit the unit comparison of lines 772-773 (nor C5).
RequiresAppendOnly(s, t, d) ==
  IF ~Accepts(s, t, d)
  THEN Ev(Raise(s, "TypeError"), "requires", "", t, d, "TypeError", Snap(s))
  ELSE Ev([s EXCEPT !.decl[t].dependencies = Append(@, d)],
          "requires", "", t, d, "ok", Snap(s))

\* RequiresNoKindCheck leaves out the call of acccept_requirement of line 774
\* (C24 does not hold of it).
RequiresNoKindCheck(s, t, d) ==
  IF ~s.decl[d].is_setup
  THEN DoSetup(Push(s, [NoFrame EXCEPT !.k = "requires", !.o = t, !.d = d]), d)
  ELSE Ev([s EXCEPT !.decl[t].dependencies = Append(@, d)],
          "requires", "", t, d, "ok", Snap(s))

\* unit.py 774-777: the kind check, the eager setup and the append.
RequiresAccepted(s, t, d) ==
  IF ~Accepts(s, t, d)
  THEN Ev(Raise(s, "TypeError"), "requires", "", t, d, "TypeError", Snap(s))
  ELSE IF ~s.decl[d].is_setup
  THEN DoSetup(Push(s, [NoFrame EXCEPT !.k = "requires", !.o = t, !.d = d]), d)
  ELSE Ev([s EXCEPT !.decl[t].dependencies = Append(@, d)],
          "requires", "", t, d, "ok", Snap(s))

RequiresAnyUnit(s, t, d) ==
  IF s.decl[d].abstract /\ ~s.decl[t].abstract
  THEN Ev(Raise(s, "ValueError"), "requires", "", t, d, "ValueError", Snap(s))
  ELSE RequiresAccepted(s, t, d)

\* unit.py 767-777.
Requires(s, t, d) ==
  IF s.decl[d].abstract /\ ~s.decl[t].abstract
  THEN Ev(Raise(s, "ValueError"), "requires", "", t, d, "ValueError", Snap(s))
  ELSE IF s.decl[d].abstract /\ s.decl[t].unit # s.decl[d].unit
  THEN Ev(Raise(s, "ValueError"), "requires", "", t, d, "ValueError", Snap(s))
  ELSE RequiresAccepted(s, t, d)

\* unit.py 777, reached after the do_setup call of line 776 returned.
RequiresResume(s) ==
  LET f == Top(s)
      s1 == Pop(s)
  IN Ev([s1 EXCEPT !.decl[f.o].dependencies = Append(@, f.d)],
        "requires", "", f.o, f.d, "ok", Snap(s))

\* --------------------------------------- Unit.target / Unit.task decorators
\* unit.py 641-651 and 676-686: the name check, the new object, one requires
\* per requirement, and only then the registration in Unit.targets.
\* The record of a finished declaration: the unit, the name, the object made
\* (None when the name was taken), the outcome, and the states before the last
\* step of the declaration and after it.
DeclEv(s, u, name, o, res, pre) ==
  [s EXCEPT !.events = Append(@, [op |-> "declare", u |-> u, o |-> o, d |-> None, name |-> name,
                                  res |-> res, pre |-> Snap(pre), post |-> Snap(s)])]

DeclareResume(s) ==
  LET f == Top(s)
  IN IF f.reqs = <<>>
     THEN DeclEv([Pop(s) EXCEPT !.targets[f.u] = DictSet(@, s.decl[f.o].name, f.o)],
                 f.u, s.decl[f.o].name, f.o, "ok", s)
     ELSE Requires(SetTop(s, [f EXCEPT !.reqs = Tail(@)]), f.o, Head(f.reqs))

\* DeclareRegistersFirst enters the new object in Unit.targets before its
\* requirements are added (C22 does not hold of it).
DeclareRegistersFirst(s, u, name, kind, abstract, reqs) ==
  IF DictHas(s.targets[u], name)
  THEN DeclEv(Raise(s, "ValueError"), u, name, None, "ValueError", s)
  ELSE LET o == NewObj(s, u, name)
       IN Push([s EXCEPT !.decl[o] = NewDecl(UnitObj(s, u), name, kind, abstract),
                         !.targets[u] = DictSet(@, name, o)],
               [NoFrame EXCEPT !.k = "declare", !.u = u, !.o = o, !.reqs = reqs])

Declare(s, u, name, kind, abstract, reqs) ==
  IF DictHas(s.targets[u], name)
  THEN DeclEv(Raise(s, "ValueError"), u, name, None, "ValueError", s)
  ELSE LET o == NewObj(s, u, name)
       IN Push([s EXCEPT !.decl[o] = NewDecl(UnitObj(s, u), name, kind, abstract)],
               [NoFrame EXCEPT !.k = "declare", !.u = u, !.o = o, !.reqs = reqs])

\* ------------------------------------------------------------ Target.build
\* unit.py 876-943, with no listener registered: the evaluated input and output
\* lists are ins and outs.
Entry(ins, outs) == [inputs |-> ins, outputs |-> outs, auxiliary |-> <<>>]

EachEntries(ins, outs) == [i \in 1..Len(ins) |-> Entry(<<ins[i]>>, <<outs[i]>>)]

\* The record of a finished build call: its arguments, its outcome and the
\* states before and after it.
BuildEv(s, t, ins, outs, each, res, pre) ==
  [s EXCEPT !.events = Append(@, [op |-> "build", u |-> "", o |-> t, d |-> None,
                                  ins |-> ins, outs |-> outs, each |-> each,
                                  res |-> res, pre |-> Snap(pre), post |-> Snap(s)])]

\* zip(input_files, output_files) (unit.py 924): as many pairs as the shorter
\* list has.
ZipEntries(ins, outs) ==
  [i \in 1..(IF Len(ins) < Len(outs) THEN Len(ins) ELSE Len(outs)) |->
     Entry(<<ins[i]>>, <<outs[i]>>)]

\* BuildEachWhole appends one entry with the whole lists also for each=True
\* (C17 does not hold of it).
BuildEachWhole(s, t, ins, outs, each) ==
  IF each /\ Len(ins) # Len(outs)
  THEN BuildEv(Raise(s, "ValueError"), t, ins, outs, each, "ValueError", s)
  ELSE BuildEv([s EXCEPT !.decl[t].command_data = Append(@, Entry(ins, outs))],
               t, ins, outs, each, "ok", s)

\* BuildChecksLate compares the counts only after the pairs have been
\* appended (C18 does not hold of it).
BuildChecksLate(s, t, ins, outs, each) ==
  IF each
  THEN LET s1 == [s EXCEPT !.decl[t].command_data = @ \o ZipEntries(ins, outs)]
       IN IF Len(ins) # Len(outs)
          THEN BuildEv(Raise(s1, "ValueError"), t, ins, outs, each, "ValueError", s)
          ELSE BuildEv(s1, t, ins, outs, each, "ok", s)
  ELSE BuildEv([s EXCEPT !.decl[t].command_data = Append(@, Entry(ins, outs))],
               t, ins, outs, each, "ok", s)

Build(s, t, ins, outs, each) ==
  IF each
  THEN IF Len(ins) # Len(outs)
       THEN BuildEv(Raise(s, "ValueError"), t, ins, outs, each, "ValueError", s)
       ELSE BuildEv([s EXCEPT !.decl[t].command_data = @ \o EachEntries(ins, outs)],
                    t, ins, outs, each, "ok", s)
  ELSE BuildEv([s EXCEPT !.decl[t].command_data = Append(@, Entry(ins, outs))],
               t, ins, outs, each, "ok", s)

\* ----------------------------------------------------------- Target.export
\* unit.py 948-988: the checks that decide whether the export goes through.
\* ExportResultNoSelfCheck leaves out the check of lines 957-958 (C8 does not
\* hold of it).
ExportResultNoSelfCheck(s, t) ==
  LET deps == s.decl[t].dependencies
      bad == {i \in 1..Len(deps) : ~s.decl[deps[i]].is_setup \/ s.decl[deps[i]].kind # "Target"}
  IN IF bad # {}
     THEN (IF ~s.decl[deps[MinOf(bad)]].is_setup THEN "RuntimeError" ELSE "AttributeError")
     ELSE IF \E i \in 1..Len(s.decl[t].command_data) : s.decl[t].command_data[i].outputs = <<>>
     THEN "AssertionError"
     ELSE "ok"

ExportResult(s, t) ==
  LET deps == s.decl[t].dependencies
      bad == {i \in 1..Len(deps) : ~s.decl[deps[i]].is_setup \/ s.decl[deps[i]].kind # "Target"}
  IN IF ~s.decl[t].is_setup THEN "RuntimeError"
     ELSE IF bad # {}
     THEN (IF ~s.decl[deps[MinOf(bad)]].is_setup THEN "RuntimeError" ELSE "AttributeError")
     ELSE IF \E i \in 1..Len(s.decl[t].command_data) : s.decl[t].command_data[i].outputs = <<>>
     THEN "AssertionError"
     ELSE "ok"

\* BaseTarget.identifier (unit.py 741-743), as the sequence of its parts.
Identifier(s, t) == <<s.decl[t].unit.id, ":", s.decl[t].name>>

\* creator.ninja.ident makes a ninja identifier of a name: the colon of a
\* target identifier becomes an underscore.
Ident(name) == [i \in 1..Len(name) |-> IF name[i] = ":" THEN "_" ELSE name[i]]

\* creator.utils.normpath, on the file names of the model.
Normpath(f) == IF f = "./a.o" THEN "a.o" ELSE f

Digits == <<"0", "1", "2", "3", "4", "5", "6", "7", "8", "9">>

\* '{0:04d}'.format(index) (unit.py 977), for an index below 10000.
Fmt04(index) ==
  <<Digits[((index \div 1000) % 10) + 1], Digits[((index \div 100) % 10) + 1],
    Digits[((index \div 10) % 10) + 1], Digits[(index % 10) + 1]>>

\* RuleNameOfTarget names every rule of a target alike (C20 does not hold of it).
RuleNameOfTarget(s, t, index) == Ident(Identifier(s, t))

\* unit.py 977-978: the rule name of the entry with the given index (from 0).
RuleName(s, t, index) == Ident(Identifier(s, t) \o <<"_">> \o Fmt04(index))

\* unit.py 966-971: the set of the outputs of all entries of the dependencies.
InFiles(s, t) ==
  UNION {UNION {{Normpath(f) : f \in Range(s.decl[d].command_data[i].outputs)} :
                  i \in 1..Len(s.decl[d].command_data)} :
           d \in Range(s.decl[t].dependencies)}

\* list(infiles) (unit.py 973): the set in some order, each file once.
Orders(F) ==
  {q \in [1..Cardinality(F) -> F] : \A i, j \in 1..Cardinality(F) : q[i] = q[j] => i = j}

\* What the writer is handed: comment, rule and build statements.
Stmt(k, name, outs, ins) == [k |-> k, name |-> name, outs |-> outs, ins |-> ins]

\* BuildInputsOwnOnly leaves the outputs of the dependencies out of the inputs
\* of a build statement (C19 does not hold of it).
BuildInputsOwnOnly(entry, infiles) == entry.inputs \o entry.auxiliary

\* unit.py 982: the inputs of the build statement of an entry.
BuildInputs(entry, infiles) == entry.inputs \o infiles \o entry.auxiliary

RECURSIVE Flatten(_)
Flatten(seqs) == IF seqs = <<>> THEN <<>> ELSE Head(seqs) \o Flatten(Tail(seqs))

\* unit.py 960-988: the statements written until export returns or raises;
\* infiles is the list made of the dependencies' outputs.
ExportOutput(s, t, infiles) ==
  LET res == ExportResult(s, t)
      cd == s.decl[t].command_data
      bad == {i \in 1..Len(cd) : cd[i].outputs = <<>>}
      n == IF bad = {} THEN Len(cd) ELSE MinOf(bad) - 1
      rule(i) == Stmt("rule", RuleName(s, t, i - 1), <<>>, <<>>)
      build(i) == Stmt("build", RuleName(s, t, i - 1), cd[i].outputs, BuildInputs(cd[i], infiles))
      comment == Stmt("comment", Identifier(s, t), <<>>, <<>>)
      phony == Stmt("phony", Ident(Identifier(s, t)), <<>>,
                    Flatten([i \in 1..Len(cd) |-> cd[i].outputs]))
  IN IF ~s.decl[t].is_setup THEN <<>>
     ELSE IF res \in {"RuntimeError", "AttributeError"} THEN <<comment>>
     ELSE <<comment>> \o Flatten([i \in 1..n |-> <<rule(i), build(i)>>])
            \o (IF bad = {} THEN <<phony>> ELSE <<rule(n + 1)>>)

\* The record of a finished export call: its outcome and what was written.
ExportEv(s, t, res, out, pre) ==
  [s EXCEPT !.events = Append(@, [op |-> "export", u |-> "", o |-> t, d |-> None, res |-> res,
                                  out |-> out, pre |-> Snap(pre), post |-> Snap(s)])]

Export(s, t, infiles) ==
  LET res == ExportResult(s, t)
  IN ExportEv(IF res = "ok" THEN s ELSE Raise(s, res), t, res, ExportOutput(s, t, infiles), s)

\* ------------------------------------------------------------ Unit.extends
\* BaseTarget.copy / _copy_from (unit.py 803-836, 990-992, 1010-1012).
\* CloneKeepsState is a copy that keeps the source's is_setup and command_data
\* (C7 does not hold of it).
CloneKeepsState(s, src, unit) ==
  [live |-> TRUE, unit |-> unit, name |-> s.decl[src].name, kind |-> s.decl[src].kind,
   abstract |-> s.decl[src].abstract, is_setup |-> s.decl[src].is_setup,
   dependencies |-> s.decl[src].dependencies, command_data |-> s.decl[src].command_data,
   done |-> FALSE, setups |-> 0]

Clone(s, src, unit) ==
  [live |-> TRUE, unit |-> unit, name |-> s.decl[src].name, kind |-> s.decl[src].kind,
   abstract |-> s.decl[src].abstract, is_setup |-> FALSE,
   dependencies |-> s.decl[src].dependencies, command_data |-> <<>>,
   done |-> FALSE, setups |-> 0]

\* unit.py 529-533: one clone per item of the source unit's targets, made
\* non-abstract and stored under the same name in the extending unit.
RECURSIVE CloneAll(_, _, _, _)
CloneAll(s, a, b, i) ==
  IF i > Len(s.targets[b]) THEN s
  ELSE IF Free(s) = {} THEN [s EXCEPT !.full = TRUE]
  ELSE LET item == s.targets[b][i]
           c == NewObj(s, a, item.name)
       IN CloneAll([s EXCEPT !.decl[c] = [Clone(s, item.obj, UnitObj(s, a)) EXCEPT !.abstract = FALSE],
                             !.targets[a] = DictSet(@, item.name, c)],
                   a, b, i + 1)

\* unit.py 535-540: the loop meant to replace abstract dependencies.  Line 538
\* reads unit.target, the declarator method, which has no items(): the first
\* dependency the loop comes to raises AttributeError, and no edge is rewritten.
ReplaceAbstract(s, a, b) ==
  IF \E o \in DictValues(s.targets[a]) : s.decl[o].dependencies # <<>>
  THEN Raise(s, "AttributeError")
  ELSE s

\* BaseContext.transition (unit.py 1044-1053) on the context of unit a: an
\* expression is copied with a switch to a's context, any other value is
\* stored as it is.
Transition(v, a) == IF IsExpr(v) THEN Copy(v, a) ELSE v

\* TransferRebindsNothing stores B's expressions as they are (C21 does not
\* hold of it).
TransferRebindsNothing(s, a, b) ==
  [s EXCEPT !.scope[a] = [k \in DOMAIN @ |->
     IF k \notin OwnNames /\ Bound(s.scope[b], k) THEN s.scope[b][k] ELSE @[k]]]

\* unit.py 522-524: every entry of b's scope (UnitContext.items, 1119-1120)
\* but self and ProjectPath goes into a's scope.
TransferBindings(s, a, b) ==
  [s EXCEPT !.scope[a] = [k \in DOMAIN @ |->
     IF k \notin OwnNames /\ Bound(s.scope[b], k) THEN Transition(s.scope[b][k], a) ELSE @[k]]]

\* unit.py 526-527: every alias of b, self included, goes into a's table.
TransferAliases(s, a, b) ==
  [s EXCEPT !.aliases[a] = [al \in DOMAIN @ |->
     IF s.aliases[b][al] # NoVal THEN s.aliases[b][al] ELSE @[al]]]

\* The scopes and alias tables, for the record of an extends call.
CtxSnap(s) == [scope |-> s.scope, aliases |-> s.aliases]

\* unit.py 521-542 from the point where self.load(identifier) has returned.
ExtendsBody(s, a, b, inherit) ==
  LET s0 == TransferAliases(TransferBindings(s, a, b), a, b)
      s1 == IF inherit THEN ReplaceAbstract(CloneAll(s0, a, b, 1), a, b) ELSE s0
  IN [s1 EXCEPT !.events = Append(@, [op |-> "extends", u |-> a, b |-> b, inherit |-> inherit,
                                       res |-> s1.exc, pre |-> Snap(s), post |-> Snap(s1),
                                       cpre |-> CtxSnap(s), cpost |-> CtxSnap(s1)])]

\* Workspace.load_unit (unit.py 195-225) of an identifier that is not registered:
\* a new Unit is registered under it and its script starts to run.
\* LoadUnitLate does not register the Unit before the script runs (C13 does
\* not hold of it).
LoadUnitLate(s, u) ==
  Push([s EXCEPT !.ugen[u] = @ + 1, !.targets[u] = <<>>],
       [NoFrame EXCEPT !.k = "load_unit", !.u = u])

LoadUnit(s, u) ==
  Push([s EXCEPT !.units = Append(@, u), !.ugen[u] = @ + 1, !.targets[u] = <<>>,
                 !.scope[u] = NewUnitScope(u), !.aliases[u] = NewAliases(u)],
       [NoFrame EXCEPT !.k = "load_unit", !.u = u])

Extends(s, a, b, inherit) ==
  IF b \in Range(s.units)
  THEN ExtendsBody(s, a, b, inherit)
  ELSE LoadUnit(Push(s, [NoFrame EXCEPT !.k = "extends", !.u = a, !.b = b, !.inherit = inherit]), b)

ExtendsResume(s) ==
  LET f == Top(s)
  IN ExtendsBody(Pop(s), f.u, f.b, f.inherit)

\* ------------------------------------------------- Workspace.setup_targets
\* unit.py 240-248.  The two loops run over the live dicts: python raises
\* RuntimeError when a dict changed size since its iteration began.  ui and ti
\* count the items taken; ti = 0 while no inner loop is running.  The event
\* "visit" records that the loop called do_setup on a declaration.
SetupTargetsResume(s) ==
  LET f == Top(s)
  IN IF f.ti = 0
     THEN IF Len(s.units) # f.nu
          THEN Ev(Raise(s, "RuntimeError"), "setup_targets", "", None, None, "RuntimeError", Snap(s))
          ELSE IF f.ui >= Len(s.units)
          THEN Ev(Pop(s), "setup_targets", "", None, None, "ok", Snap(s))
          ELSE SetTop(s, [f EXCEPT !.ui = @ + 1, !.ti = 1, !.u = s.units[f.ui + 1],
                                   !.nt = Len(s.targets[s.units[f.ui + 1]])])
     ELSE IF Len(s.targets[f.u]) # f.nt
          THEN Ev(Raise(s, "RuntimeError"), "setup_targets", "", None, None, "RuntimeError", Snap(s))
          ELSE IF f.ti > f.nt
          THEN SetTop(s, [f EXCEPT !.ti = 0])
          ELSE LET o == s.targets[f.u][f.ti].obj
                   s1 == SetTop(s, [f EXCEPT !.ti = @ + 1])
               IN IF ~s.decl[o].is_setup /\ ~s.decl[o].abstract
                  THEN DoSetup(Ev(s1, "visit", f.u, o, None, "do_setup", Snap(s)), o)
                  ELSE s1

SetupTargets(s) ==
  Push(s, [NoFrame EXCEPT !.k = "setup_targets", !.nu = Len(s.units)])

\* ------------------------------------------------------------- control flow
\* An exception leaves a pending core call: none of them catches anything.  The
\* object of an unfinished declaration was never stored anywhere: it is dropped.
CoreFail(s) ==
  LET f == Top(s)
  IN IF f.k = "declare"
     THEN DeclEv([Pop(s) EXCEPT !.decl[f.o] = NoDecl], f.u, s.decl[f.o].name, f.o, s.exc, s)
     ELSE Pop(s)

\* The objects reachable from the set R along dependency lists.
RECURSIVE Reach(_, _)
Reach(s, R) ==
  LET R2 == R \cup UNION {Range(s.decl[o].dependencies) : o \in R}
  IN IF R2 = R THEN R ELSE Reach(s, R2)

\* Workspace.load_unit, unit.py 221-223: the script raised, the unit is taken
\* out of the registry again.  Its Unit object and the declarations that only
\* it referred to are garbage.  RollbackKeepsEntry leaves the unit registered
\* (C11 does not hold of it).
RollbackKeepsEntry(s, u) == s

Rollback(s, u) ==
  LET owned == {o \in Live(s) : s.decl[o].unit = UnitObj(s, u)}
      kept == Reach(s, Live(s) \ owned)
      gone == owned \ kept
  IN [s EXCEPT !.units = SeqWithout(@, u),
               !.targets[u] = <<>>,
               !.decl = [o \in ObjIds |-> IF o \in gone THEN NoDecl ELSE @[o]],
               !.setup_order = SelectSeq(@, LAMBDA o : o \notin gone)]

\* ------------------------------------------- Workspace: finding and loading
\* What a call of the workspace leaves behind, for the history.
WsSnap(s) ==
  [units |-> s.units, ugen |-> s.ugen, targets |-> s.targets, statics |-> s.statics,
   ident_cache |-> s.ident_cache, scans |-> s.scans]

WsEv(s, op, u, res, ret, pre) ==
  [s EXCEPT !.events = Append(@, [op |-> op, u |-> u, res |-> res, ret |-> ret,
                                   wpre |-> WsSnap(pre), wpost |-> WsSnap(s)])]

\* creator.utils.read_metadata of the unit file named after u: whether it
\* carries the key creator.unit.name.
ReadMetadata(s, u) == IF u \in s.disk THEN "keyed" ELSE "bare"

\* unit.py 152-177: one scan of the search path.  The metadata of a file is
\* read once and cached (a missing key gives a warning then); every file whose
\* metadata names a unit puts that identifier into the identifier cache, and
\* nothing is ever taken out.
ScanPath(s) ==
  LET present == s.disk \cup s.bare
      fresh == {u \in present : s.metadata_cache[u] = NoVal}
      meta == [u \in UnitIds |-> IF u \in fresh THEN ReadMetadata(s, u) ELSE s.metadata_cache[u]]
      warned == {u \in fresh : meta[u] = "bare"}
  IN [s EXCEPT !.ident_cache = @ \cup {u \in present : meta[u] = "keyed"},
               !.metadata_cache = meta,
               !.scans = @ + 1,
               !.events = IF warned = {} THEN @ ELSE Append(@, [op |-> "warn", files |-> warned])]

\* Workspace.find_unit (unit.py 132-179); its result is the cached path of u.
\* FindUnitNoRecache is the call with allow_recache=False that ends it (line
\* 179).  FindUnitRescans scans once more before it gives up (C14 does not
\* hold of it).
FindUnitNoRecache(s, u) ==
  IF u \in s.ident_cache THEN s ELSE Raise(s, "UnitNotFoundError")

FindUnitRescans(s, u) ==
  IF u \in s.ident_cache THEN s
  ELSE IF u \in ScanPath(s).ident_cache THEN ScanPath(s)
  ELSE FindUnitNoRecache(ScanPath(ScanPath(s)), u)

FindUnit(s, u) ==
  IF u \in s.ident_cache THEN s ELSE FindUnitNoRecache(ScanPath(s), u)

\* Workspace.load_unit (unit.py 181-225), for a unit whose directory holds no
\* .creator_profile.  LoadUnitAlways leaves out the check of lines 195-196
\* (C12 does not hold of it).
LoadUnitAlways(s, u) ==
  LET s1 == FindUnit(s, u)
  IN IF s1.exc # "none"
     THEN WsEv(s1, "load_unit", u, s1.exc, NoUnit, s)
     ELSE LoadUnit(s1, u)

WsLoadUnit(s, u) ==
  IF u \in Range(s.units)
  THEN WsEv(s, "load_unit", u, "cached", UnitObj(s, u), s)
  ELSE LET s1 == FindUnit(s, u)
       IN IF s1.exc # "none"
          THEN WsEv(s1, "load_unit", u, s1.exc, NoUnit, s)
          ELSE LoadUnit(s1, u)

\* Workspace.run_static_unit (unit.py 98-118): the Unit of a static file is
\* registered in statics and its script starts to run.
RunStatic(s, f) ==
  IF f \in s.statics
  THEN WsEv(s, "run_static_unit", f, "cached", UnitObj(s, f), s)
  ELSE Push([s EXCEPT !.statics = @ \cup {f}, !.ugen[f] = @ + 1, !.targets[f] = <<>>],
            [NoFrame EXCEPT !.k = "static", !.u = f])

\* unit.py 116-118: the static script raised.
StaticRollback(s, f) == [s EXCEPT !.statics = @ \ {f}, !.targets[f] = <<>>]

\* ------------------------------------------------- contexts and namespaces
\* A variable or target name is the sequence of its parts: <<"X">> is the text
\* X and <<"b", ":", "X">> the text b:X.
\* creator.utils.parse_var splits a name at its colon into (namespace, name),
\* with no namespace (None) for a name without one.
ParseVar(name) ==
  IF Len(name) = 3 /\ name[2] = ":" THEN <<name[1], name[3]>> ELSE <<NoNs, name[1]>>

\* creator.utils.create_var joins a namespace and a name again.
CreateVar(namespace, name) ==
  IF namespace = NoNs THEN <<name>> ELSE <<namespace, ":", name>>

\* The computed built-ins of creator.macro.Globals.
Builtins == {"Platform"}

\* self.scope[name]: the value bound, or the KeyError of the dictionary.
ScopeGet(sc, n) == IF Bound(sc, n) THEN sc[n] ELSE "KeyError"

\* BaseContext.get_macro (unit.py 1068-1084) of the WorkspaceContext: its
\* namespace is '', its scope is G and it has no parent.
WsBaseGetMacro(s, name) ==
  LET p == ParseVar(name)
  IN IF p[1] = ""
     THEN ScopeGet(s.scope[Global], p[2])
     ELSE IF p[1] = NoNs /\ Bound(s.scope[Global], p[2])
          THEN s.scope[Global][p[2]]
          ELSE "KeyError"

\* WorkspaceContext.get_macro (unit.py 1143-1152).
WsGetMacro(s, name) ==
  LET r == WsBaseGetMacro(s, name)
      p == ParseVar(name)
  IN IF r # "KeyError" THEN r
     ELSE IF p[1] \in {NoNs, ""} /\ p[2] \in Builtins THEN p[2]
     ELSE "KeyError"

\* UnitContext._prepare_name (unit.py 1104-1109): an alias of the unit is
\* replaced by the identifier it stands for.
PrepareName(s, u, name) ==
  LET p == ParseVar(name)
  IN IF p[1] \in AliasNames /\ s.aliases[u][p[1]] # NoVal
     THEN <<s.aliases[u][p[1]], p[2]>>
     ELSE p

\* BaseContext.get_macro (unit.py 1068-1084) of the UnitContext of unit u: its
\* namespace is the unit's identifier, its scope the unit's, its parent the
\* workspace's context.
GetMacro(s, u, name) ==
  LET p == PrepareName(s, u, name)
  IN IF p[1] = u THEN ScopeGet(s.scope[u], p[2])
     ELSE IF p[1] = NoNs /\ Bound(s.scope[u], p[2]) THEN s.scope[u][p[2]]
     ELSE WsGetMacro(s, CreateVar(p[1], p[2]))

\* The record of a finished context call: the name asked for and the answer.
CtxEv(s, op, u, name, res) ==
  [s EXCEPT !.events = Append(@, [op |-> op, u |-> u, name |-> name, res |-> res])]

\* The answer of a target lookup: the declaration found, or the exception.
Found(o) == [exc |-> "none", obj |-> o]

NotFound(x) == [exc |-> x, obj |-> None]

\* Unit.get_target (unit.py 360-379) of the registered unit u.
UnitGetTarget(s, u, name) ==
  LET p == ParseVar(name)
  IN IF p[1] # NoNs /\ p[1] \notin Range(s.units) THEN NotFound("UnitNotFoundError")
     ELSE LET dict == s.targets[IF p[1] = NoNs THEN u ELSE p[1]]
          IN IF DictHas(dict, p[2]) THEN Found(DictGet(dict, p[2]))
             ELSE NotFound("ValueError")

\* Workspace.get_target (unit.py 227-238), called with the unit u: the
\* namespace of the name is taken as a unit identifier (get_unit, 120-130).
GetTarget(s, name, u) ==
  LET p == ParseVar(name)
      namespace == IF p[1] \in {NoNs, ""} THEN u ELSE p[1]
  IN IF namespace \notin Range(s.units) THEN NotFound("UnitNotFoundError")
     ELSE UnitGetTarget(s, namespace, <<p[2]>>)

\* The text of a name: the string its parts make.
TextOf(name) == IF Len(name) = 1 THEN name[1] ELSE name[1] \o name[2] \o name[3]

\* Unit.run_task (unit.py 403-426) of unit u: the Task whose function is
\* called, or the exception.  The dictionary is asked for the whole task_name
\* (line 420), namespace and all.
RunTask(s, u, name) ==
  LET p == ParseVar(name)
  IN IF p[1] # NoNs /\ p[1] \notin Range(s.units) THEN NotFound("UnitNotFoundError")
     ELSE LET dict == s.targets[IF p[1] = NoNs THEN u ELSE p[1]]
          IN IF DictHas(dict, TextOf(name)) /\ s.decl[DictGet(dict, TextOf(name))].kind = "Task"
             THEN Found(DictGet(dict, TextOf(name)))
             ELSE NotFound("ValueError")

\* BaseTarget.requires (unit.py 767-777) for a requirement given as a string.
RequiresName(s, t, name) ==
  LET u == s.decl[t].unit.id
      r == GetTarget(s, name, u)
      s1 == CtxEv(s, "get_target", u, name, r)
  IN IF r.exc # "none" THEN Raise(s1, r.exc) ELSE Requires(s1, t, r.obj)

\* Unit.load (unit.py 571-589): the workspace loads the unit; once that has
\* returned, the alias is entered in the calling unit's table.
UnitLoad(s, a, b, alias) ==
  WsLoadUnit(Push(s, [NoFrame EXCEPT !.k = "load", !.u = a, !.b = b, !.alias = alias]), b)

UnitLoadResume(s) ==
  LET f == Top(s)
  IN IF f.alias = NoVal THEN Pop(s)
     ELSE [Pop(s) EXCEPT !.aliases[f.u][f.alias] = f.b]

\* The exceptions that "except Exception" (unit.py 221, 116) does not catch:
\* exit() and error() in a script raise SystemExit.
NotCaught == {"SystemExit"}

\* The exception leaves the user code that did not catch it: a hook (do_setup
\* has no handler, is_setup stays as it is), a unit script (load_unit) or a
\* static script (run_static_unit).
UserFail(s) ==
  LET f == Top(s)
  IN IF f.k = "load_unit"
     THEN WsEv(IF s.exc \in NotCaught THEN Pop(s) ELSE Rollback(Pop(s), f.u),
               "load_unit", f.u, s.exc, NoUnit, s)
     ELSE IF f.k = "static"
     THEN WsEv(IF s.exc \in NotCaught THEN Pop(s) ELSE StaticRollback(Pop(s), f.u),
               "run_static_unit", f.u, s.exc, NoUnit, s)
     ELSE Ev(Pop(s), "do_setup", "", f.o, None, s.exc, Snap(s))

\* Target.build (unit.py 904-942) with each=False and a listener registered
\* that puts the files aux into data['auxiliary'].
BuildListened(s, t, ins, outs, aux) ==
  BuildEv([s EXCEPT !.decl[t].command_data = Append(@, [Entry(ins, outs) EXCEPT !.auxiliary = aux])],
          t, ins, outs, FALSE, "ok", s)

\* Runs the core's code until user code is in control again (or nothing is left
\* to run): a pending call whose callee returned goes on; an exception unwinds
\* the pending calls up to the nearest user code, which may catch it.  With
\* nothing left on the stack the exception has reached the outermost caller.
RECURSIVE Continue(_)
Continue(s) ==
  IF s.stack = <<>> THEN [s EXCEPT !.exc = "none"]
  ELSE IF Top(s).k \in UserFrames THEN s
  ELSE IF s.exc # "none" THEN Continue(CoreFail(s))
  ELSE IF Top(s).k = "requires" THEN Continue(RequiresResume(s))
  ELSE IF Top(s).k = "declare" THEN Continue(DeclareResume(s))
  ELSE IF Top(s).k = "extends" THEN Continue(ExtendsResume(s))
  ELSE IF Top(s).k = "setup_targets" THEN Continue(SetupTargetsResume(s))
  ELSE IF Top(s).k = "load" THEN Continue(UnitLoadResume(s))
  ELSE s

\* ------------------------------------------------- the command line: main
\* What the command line asks for: the five mode switches of the parser.
Flags == [export : BOOLEAN, no_export : BOOLEAN, dry : BOOLEAN, clean : BOOLEAN,
          clean_with_dependencies : BOOLEAN]

\* The declarations named on the command line, by class, in the order in which
\* main works them off.
TargetLists == {<<>>, <<"Target">>, <<"Task">>, <<"Task", "Target">>}

\* A run of main that has not started: args are the parsed options, argv keeps
\* what the command line said, written / runner / tasks / removed record what
\* the run did to the world, ret is what the process ends with.
NoMain == [pc |-> "idle", argv |-> [export |-> FALSE, no_export |-> FALSE, dry |-> FALSE,
                                    clean |-> FALSE, clean_with_dependencies |-> FALSE],
           args |-> [export |-> FALSE, no_export |-> FALSE, dry |-> FALSE,
                     clean |-> FALSE, clean_with_dependencies |-> FALSE],
           targets |-> <<>>, has_targets |-> FALSE, written |-> FALSE,
           runner |-> 0, tasks |-> 0, removed |-> FALSE, ret |-> "none"]

Return(m, value) == [m EXCEPT !.pc = "done", !.ret = value]

\* main, lines 106-160 of __main__.py: the conflicting options end the process
\* through parser.error; --clean-with-dependencies implies --clean, --clean
\* implies --no-export; then the unit is loaded and the targets are set up.
MainParse(m, flags, given, any) ==
  LET a1 == [flags EXCEPT !.clean = flags.clean \/ flags.clean_with_dependencies]
      a2 == [a1 EXCEPT !.no_export = a1.no_export \/ a1.clean]
      m1 == [m EXCEPT !.argv = flags, !.targets = given, !.has_targets = any]
  IN IF (flags.no_export /\ flags.export) \/ (flags.dry /\ flags.export)
        \/ (a1.clean /\ flags.export)
     THEN Return(m1, "parser.error")
     ELSE [m1 EXCEPT !.args = a2, !.pc = "setup"]

\* Lines 162-164: a dry run ends here.
MainDry(m) == IF m.args.dry THEN Return(m, "0") ELSE [m EXCEPT !.pc = "collect"]

NinjaTargets(list) == SelectSeq(list, LAMBDA k : k = "Target")

\* Lines 178-202: the targets are collected; with nothing named and no Target
\* in the workspace the run turns into a dry run that exports nothing.
MainCollect(m) ==
  IF m.targets = <<>> /\ NinjaTargets(m.targets) = <<>> /\ ~m.has_targets
  THEN [m EXCEPT !.args.dry = TRUE, !.args.no_export = TRUE, !.pc = "export"]
  ELSE [m EXCEPT !.pc = "export"]

\* Lines 204-211, as they would be without the no_export test.
MainExportAlways(m) ==
  IF m.args.export \/ NinjaTargets(m.targets) # <<>> \/ m.targets = <<>>
  THEN IF m.args.export THEN Return([m EXCEPT !.written = TRUE], "0")
       ELSE [m EXCEPT !.written = TRUE, !.pc = "clean"]
  ELSE [m EXCEPT !.pc = "clean"]

\* Lines 204-211: the build-definition file is written; --export ends here.
MainExport(m) ==
  IF ~m.args.no_export
     /\ (m.args.export \/ NinjaTargets(m.targets) # <<>> \/ m.targets = <<>>)
  THEN IF m.args.export THEN Return([m EXCEPT !.written = TRUE], "0")
       ELSE [m EXCEPT !.written = TRUE, !.pc = "clean"]
  ELSE [m EXCEPT !.pc = "clean"]

\* The run has Targets whose output files the clean loop goes through.
Cleanable(m) ==
  IF m.targets = <<>> THEN m.has_targets ELSE NinjaTargets(m.targets) # <<>>

\* Lines 213-230: the output files are removed; a file that cannot be removed
\* ends the process through Workspace.error (unit.py 89-96, sys.exit(1)).
MainClean(m, outcome) ==
  IF m.args.clean \/ m.args.clean_with_dependencies
  THEN IF Cleanable(m) /\ outcome = "OSError" THEN Return(m, "exit 1")
       ELSE Return([m EXCEPT !.removed = Cleanable(m)], "0")
  ELSE [m EXCEPT !.pc = "run"]

\* Lines 241-251: each target in turn, a Task by calling its function, a
\* Target by a call of ninja whose result res ends the run when it is not 0.
RECURSIVE RunEach(_, _, _)
RunEach(m, list, res) ==
  IF list = <<>> THEN Return(m, "0")
  ELSE IF Head(list) = "Task" THEN RunEach([m EXCEPT !.tasks = @ + 1], Tail(list), res)
  ELSE IF res # "0" THEN Return([m EXCEPT !.runner = @ + 1], res)
  ELSE RunEach([m EXCEPT !.runner = @ + 1], Tail(list), res)

\* Lines 232-251: with no target named ninja builds everything.
MainRun(m, res) ==
  IF m.targets = <<>> /\ ~m.args.dry THEN Return([m EXCEPT !.runner = @ + 1], res)
  ELSE RunEach(m, m.targets, res)

\* ---------------------------------------------------- complete_target_list
Reversed(seq) == [i \in 1..Len(seq) |-> seq[Len(seq) + 1 - i]]

\* list.remove(x): the list without the first x.
Remove(list, x) ==
  LET i == CHOOSE j \in 1..Len(list) : list[j] = x /\ \A k \in 1..(j - 1) : list[k] # x
  IN SubSeq(list, 1, i - 1) \o SubSeq(list, i + 1, Len(list))

\* A declaration reachable from the objects in R is among its own direct or
\* transitive dependencies.
Cyclic(s, R) ==
  \E o \in Reach(s, R) : o \in Reach(s, Range(s.decl[o].dependencies))

\* The loop as it would be without lines 99-100, which take the dependency
\* out of the list before it is put in front.
RECURSIVE CompleteKeeps(_, _, _)
CompleteKeeps(s, list, deps) ==
  IF deps = <<>> THEN list
  ELSE LET dep == Head(deps)
           moved == <<dep>> \o list
       IN CompleteKeeps(s, CompleteKeeps(s, moved, Reversed(s.decl[dep].dependencies)), Tail(deps))

\* __main__.py 98-102, the loop of complete_target_list(targets, for_target)
\* over deps, which is what is left of reversed(for_target.dependencies): the
\* dependency is moved to the front of the list, and then its own are.
RECURSIVE CompleteFor(_, _, _)
CompleteFor(s, list, deps) ==
  IF deps = <<>> THEN list
  ELSE LET dep == Head(deps)
           moved == <<dep>> \o (IF dep \in Range(list) THEN Remove(list, dep) ELSE list)
       IN CompleteFor(s, CompleteFor(s, moved, Reversed(s.decl[dep].dependencies)), Tail(deps))

\* __main__.py 94-96: the loop over a copy of the list, todo is what is left
\* of the copy.
RECURSIVE CompleteEach(_, _, _)
CompleteEach(s, list, todo) ==
  IF todo = <<>> THEN list
  ELSE CompleteEach(s, CompleteFor(s, list, Reversed(s.decl[Head(todo)].dependencies)),
                    Tail(todo))

\* complete_target_list(targets) (__main__.py 88-103): the list it leaves.  On
\* a dependency cycle the recursion ends with python's RecursionError.
CompleteTargetList(s, given) ==
  IF Cyclic(s, Range(given))
  THEN [s EXCEPT !.exc = "RecursionError",
                 !.events = Append(@, [op |-> "complete_target_list", targets |-> given,
                                       res |-> "RecursionError", list |-> <<>>,
                                       pre |-> Snap(s)])]
  ELSE [s EXCEPT !.events = Append(@, [op |-> "complete_target_list", targets |-> given,
                                       res |-> "ok",
                                       list |-> CompleteEach(s, given, given),
                                       pre |-> Snap(s)])]

\* ---------------------------------------------------------------- actions
S == [decl |-> decl, units |-> units, targets |-> targets, ugen |-> ugen,
      stack |-> stack, exc |-> exc, setup_order |-> setup_order, events |-> <<>>,
      statics |-> statics, ident_cache |-> ident_cache, disk |-> disk, scans |-> scans,
      scope |-> scope, aliases |-> aliases, bare |-> bare,
      metadata_cache |-> metadata_cache, main |-> main, full |-> FALSE]

\* The step to the state r, within the bounds of the model (full: the step
\* needs more declaration objects than MaxObj).
Becomes(r) ==
  /\ ~r.full
  /\ Len(r.stack) <= MaxDepth
  /\ \A o \in ObjIds : Len(r.decl[o].dependencies) <= MaxDeps
  /\ \A o \in ObjIds : Len(r.decl[o].command_data) <= MaxCmds
  /\ decl' = r.decl
  /\ units' = r.units
  /\ targets' = r.targets
  /\ ugen' = r.ugen
  /\ stack' = r.stack
  /\ exc' = r.exc
  /\ setup_order' = r.setup_order
  /\ events' = r.events
  /\ statics' = r.statics
  /\ ident_cache' = r.ident_cache
  /\ disk' = r.disk
  /\ scans' = r.scans
  /\ scope' = r.scope
  /\ aliases' = r.aliases
  /\ bare' = r.bare
  /\ metadata_cache' = r.metadata_cache
  /\ main' = r.main

TopKind == IF stack = <<>> THEN "" ELSE stack[Len(stack)].k

\* User code is in control: the outermost caller, a unit script or a hook.
UserCode == exc = "none" /\ TopKind \in UserFrames \cup {""}

Registered == Range(units)

LiveObjs == {o \in ObjIds : decl[o].live}

FreeObjs == ObjIds \ LiveObjs

\* The objects user code can name.  The object of a declaration that is still
\* pending is a local of the decorator (unit.py 645-650): nothing outside it
\* refers to the object before the decorator has stored and returned it.
Accessible ==
  LiveObjs \ {stack[i].o : i \in {j \in 1..Len(stack) : stack[j].k = "declare"}}

\* workspace.load_unit(u) for a unit that is not loaded yet
LoadUnitCall(u) ==
  /\ UserCode
  /\ u \notin Registered
  /\ ugen[u] < MaxGen
  /\ Becomes(Continue(LoadUnit(S, u)))

\* The unit script ran to its end: load_unit returns the unit (unit.py 225).
ScriptEnd ==
  /\ exc = "none"
  /\ TopKind = "load_unit"
  /\ LET u == stack[Len(stack)].u
     IN Becomes(Continue(WsEv(Pop(S), "load_unit", u, "ok", UnitObj(S, u), S)))

\* unit.target(*reqs, abstract)(func) and unit.task(*reqs, abstract)(func)
DeclareCall(u, name, kind, abstract, reqs) ==
  /\ UserCode
  /\ u \in Registered
  /\ ~DictHas(targets[u], name) => FreeObjs # {}
  /\ Becomes(Continue(Declare(S, u, name, kind, abstract, reqs)))

\* target.requires(dep)
RequiresCall(t, d) ==
  /\ UserCode
  /\ t \in Accessible /\ d \in Accessible
  /\ Becomes(Continue(Requires(S, t, d)))

\* target.do_setup()
DoSetupCall(o) ==
  /\ UserCode
  /\ o \in Accessible
  /\ Becomes(Continue(DoSetup(S, o)))

\* The hook (listeners, initalizer, on_setup) ran to its end: do_setup returns.
HookReturn ==
  /\ exc = "none"
  /\ TopKind = "hook"
  /\ LET o == stack[Len(stack)].o
     IN Becomes(Continue(Ev([Pop(S) EXCEPT !.decl[o].done = TRUE],
                            "do_setup", "", o, None, "ok", Snap(S))))

\* target.build(inputs, outputs, command, each)
BuildCall(t, ins, outs, each) ==
  /\ UserCode
  /\ t \in Accessible /\ decl[t].kind = "Target"
  /\ Becomes(Continue(Build(S, t, ins, outs, each)))

\* target.build(inputs, outputs, command) on a target with a build listener.
BuildListenedCall(t, ins, outs, aux) ==
  /\ UserCode
  /\ t \in Accessible /\ decl[t].kind = "Target"
  /\ Becomes(Continue(BuildListened(S, t, ins, outs, aux)))

\* target.export(writer)
ExportCall(t) ==
  /\ UserCode
  /\ t \in Accessible /\ decl[t].kind = "Target"
  /\ \E infiles \in Orders(InFiles(S, t)) : Becomes(Continue(Export(S, t, infiles)))

\* unit.extends(identifier, inherit_targets)
ExtendsCall(a, b, inherit) ==
  /\ UserCode
  /\ a \in Registered
  /\ b \notin Registered => ugen[b] < MaxGen
  /\ Becomes(Continue(Extends(S, a, b, inherit)))

\* workspace.setup_targets(), called by main once the main unit is loaded
\* (__main__.py 158-159)
SetupTargetsCall ==
  /\ exc = "none"
  /\ stack = <<>>
  /\ Becomes(Continue(SetupTargets(S)))

\* The user code that made the failing call handles the exception (try/except).
Catch ==
  /\ exc # "none"
  /\ TopKind \in UserFrames
  /\ Becomes([S EXCEPT !.exc = "none"])

\* ... or does not: the exception goes on to the caller of that user code.
Uncaught ==
  /\ exc # "none"
  /\ TopKind \in UserFrames
  /\ Becomes(Continue(UserFail(S)))

\* workspace.load_unit(u), or unit.load(u) without an alias (unit.py 571-589)
LoadCall(u) ==
  /\ UserCode
  /\ u \notin Registered => ugen[u] < MaxLoads /\ scans < MaxScans
  /\ Becomes(Continue(WsLoadUnit(S, u)))

\* workspace.find_unit(u)
FindUnitCall(u) ==
  /\ UserCode
  /\ scans < MaxScans
  /\ LET s1 == FindUnit(S, u)
     IN Becomes(Continue(WsEv(s1, "find_unit", u, s1.exc, NoUnit, S)))

\* workspace.run_static_unit(f)
RunStaticCall(f) ==
  /\ UserCode
  /\ f \notin statics => ugen[f] < MaxLoads
  /\ Becomes(Continue(RunStatic(S, f)))

\* The static script ran to its end (unit.py 115).
StaticEnd ==
  /\ exc = "none"
  /\ TopKind = "static"
  /\ LET f == stack[Len(stack)].u
     IN Becomes(Continue(WsEv(Pop(S), "run_static_unit", f, "ok", UnitObj(S, f), S)))

\* The script that is running raises an exception of its own, or calls exit().
ScriptRaise(x) ==
  /\ UserCode
  /\ TopKind \in {"load_unit", "static"}
  /\ Becomes(Raise(S, x))

\* A unit file without the unit-name key appears in the search path or
\* disappears from it.
BareChange(u) ==
  /\ UserCode
  /\ u \notin disk
  /\ Becomes([S EXCEPT !.bare = IF u \in @ THEN @ \ {u} ELSE @ \cup {u}])

\* A unit file with the key appears in the search path or disappears from it.
KeyedChange(u) ==
  /\ UserCode
  /\ u \notin bare
  /\ Becomes([S EXCEPT !.disk = IF u \in @ THEN @ \ {u} ELSE @ \cup {u}])

\* A unit file appears in the search path or disappears from it.
DiskChange(u) ==
  /\ UserCode
  /\ Becomes([S EXCEPT !.disk = IF u \in @ THEN @ \ {u} ELSE @ \cup {u}])

\* unit.run_task(name) of the registered unit u; the function of the Task
\* found runs and returns.
RunTaskCall(u, name) ==
  /\ UserCode
  /\ u \in Registered
  /\ LET r == RunTask(S, u, name)
         s1 == CtxEv(S, "run_task", u, name, r)
     IN Becomes(Continue(IF r.exc # "none" THEN Raise(s1, r.exc) ELSE s1))

\* target.requires(name) with a string.
RequiresNameCall(t, name) ==
  /\ UserCode
  /\ t \in Accessible
  /\ Becomes(Continue(RequiresName(S, t, name)))

\* unit.load(identifier, alias) in user code of the registered unit a.
UnitLoadCall(a, b, alias) ==
  /\ UserCode
  /\ a \in Registered
  /\ (b \notin Registered => ugen[b] < MaxLoads /\ scans < MaxScans)
  /\ Becomes(Continue(UnitLoad(S, a, b, alias)))

\* unit.define(name, text) with an unqualified name (unit.py 454-456,
\* 1035-1038): the value is bound in the unit's scope.  Each unit binds a text
\* of its own, so that an answer tells whose binding it is.
DefineCall(u, v) ==
  /\ UserCode
  /\ u \in Registered
  /\ Becomes([S EXCEPT !.scope[u][v] = Expr(u, u)])

\* workspace.context[name] = value with an unqualified name
\* (__main__.py 127-135, unit.py 1035-1038).
DefineGlobalCall(v) ==
  /\ UserCode
  /\ Becomes([S EXCEPT !.scope[Global][v] = Expr(Global, Global)])

\* The unit whose method a scope entry made by _create_scope is.
ApiUnit(v) == CHOOSE x \in UnitIds : v = Api(x)

\* define(name, text) written in the script of unit u: the name define is
\* looked up in the script's globals, the scope of unit u (unit.py 394), and
\* the method found there is called.
ScriptDefineCall(u, v) ==
  /\ exc = "none"
  /\ TopKind = "load_unit" /\ stack[Len(stack)].u = u
  /\ LET x == ApiUnit(scope[u]["define"])
     IN Becomes(CtxEv([S EXCEPT !.scope[x][v] = Expr(x, x)], "script_define", u, <<v>>, x))

\* @target written in the script of unit u: likewise for the name target.
ScriptDeclareCall(u, name) ==
  /\ exc = "none"
  /\ TopKind = "load_unit" /\ stack[Len(stack)].u = u
  /\ LET x == ApiUnit(scope[u]["define"])
     IN /\ ~DictHas(targets[x], name) => FreeObjs # {}
        /\ Becomes(Continue(Declare(CtxEv(S, "script_declare", u, <<name>>, x),
                                     x, name, "Target", FALSE, <<>>)))

\* context.get_macro(name) on the context of the registered unit u.
GetMacroCall(u, name) ==
  /\ UserCode
  /\ u \in Registered
  /\ Becomes(CtxEv(S, "get_macro", u, name, GetMacro(S, u, name)))

\* main is called with the options flags and the targets given; any: the
\* workspace has a Target that is not abstract.
MainCall(flags, given, any) ==
  /\ main.pc = "idle"
  /\ "Target" \in Range(given) => any
  /\ Becomes([S EXCEPT !.main = MainParse(main, flags, given, any)])

MainDryStep ==
  /\ main.pc = "setup"
  /\ Becomes([S EXCEPT !.main = MainDry(main)])

MainCollectStep ==
  /\ main.pc = "collect"
  /\ Becomes([S EXCEPT !.main = MainCollect(main)])

MainExportStep ==
  /\ main.pc = "export"
  /\ Becomes([S EXCEPT !.main = MainExport(main)])

MainCleanStep(outcome) ==
  /\ main.pc = "clean"
  /\ Becomes([S EXCEPT !.main = MainClean(main, outcome)])

MainRunStep(res) ==
  /\ main.pc = "run"
  /\ Becomes([S EXCEPT !.main = MainRun(main, res)])

\* The lists of declarations main can collect from the command line.
TargetListsOf(objs) ==
  {<<>>} \cup {<<a>> : a \in objs} \cup {<<a, b>> : a, b \in objs}
   \cup {<<a, b, c>> : a, b, c \in objs}

\* main completes the list of the targets named on the command line
\* (__main__.py 179-184), once the units are loaded and the targets set up.
CompleteCall(list) ==
  /\ exc = "none"
  /\ stack = <<>>
  /\ Len(list) <= MaxList
  /\ Becomes(Continue(CompleteTargetList(S, list)))

Init ==
  /\ decl = [o \in ObjIds |-> NoDecl]
  /\ units = <<>>
  /\ targets = [u \in UnitIds \cup StaticFiles |-> <<>>]
  /\ ugen = [u \in UnitIds \cup StaticFiles |-> 0]
  /\ stack = <<>>
  /\ exc = "none"
  /\ setup_order = <<>>
  /\ events = <<>>
  /\ statics = {}
  /\ ident_cache = {}
  /\ disk = UnitIds
  /\ scans = 0
  /\ scope = [u \in UnitIds \cup {Global} |-> IF u = Global THEN NewScope ELSE NewUnitScope(u)]
  /\ aliases = [u \in UnitIds |-> NewAliases(u)]
  /\ bare = {}
  /\ metadata_cache = [u \in UnitIds |-> NoVal]
  /\ main = NoMain

ReqLists == {<<>>} \cup {<<d>> : d \in Accessible}

KindOf == [lib |-> "Target", t |-> "Target", run |-> "Task"]

ExtNames == {"lib", "run"}

\* Spec: one unit, whose script and hooks declare the targets lib and t and the
\* task run, and call requires, do_setup, build and export on them.
Next ==
  \/ LoadUnitCall("A")
  \/ ScriptEnd
  \/ \E n \in Names, r \in ReqLists :
       Cardinality(LiveObjs) < MaxLive /\ DeclareCall("A", n, KindOf[n], FALSE, r)
  \/ \E t \in ObjIds, d \in ObjIds : RequiresCall(t, d)
  \/ \E o \in ObjIds : DoSetupCall(o)
  \/ HookReturn
  \/ \E t \in ObjIds :
       Len(decl[t].command_data) < MaxEntries /\ BuildCall(t, <<"a.c">>, <<"a.o">>, FALSE)
  \/ \E t \in ObjIds : BuildCall(t, <<"a.c", "b.c">>, <<"a.o">>, TRUE)
  \/ \E t \in ObjIds : ExportCall(t)
  \/ SetupTargetsCall
  \/ Catch
  \/ Uncaught

Spec == Init /\ [][Next]_vars

\* SpecExtends: two units.  B's script (or whoever loaded B) declares abstract
\* and concrete targets lib and tasks run with requirements, A declares a task
\* run that may require one of them, and A extends B; B's declarations are set
\* up by the caller once the scripts have returned, and declarations are built
\* from outside the hooks, which call nothing themselves.
NoHook == TopKind # "hook"

NextExtends ==
  \/ \E u \in UnitIds : NoHook /\ LoadUnitCall(u)
  \/ ScriptEnd
  \/ \E n \in ExtNames, a \in BOOLEAN, r \in ReqLists :
       NoHook /\ DeclareCall("B", n, KindOf[n], a, r)
  \/ \E a \in BOOLEAN, r \in ReqLists :
       NoHook /\ DeclareCall("A", "run", "Task", a, r)
  \/ \E o \in ObjIds : stack = <<>> /\ decl[o].unit.id = "B" /\ ~decl[o].is_setup /\ DoSetupCall(o)
  \/ HookReturn
  \/ \E t \in ObjIds :
       /\ NoHook /\ Len(decl[t].command_data) < MaxEntries
       /\ BuildCall(t, <<"a.c">>, <<"a.o">>, FALSE)
  \/ \E i \in BOOLEAN : NoHook /\ ExtendsCall("A", "B", i)
  \/ Catch
  \/ Uncaught

SpecExtends == Init /\ [][NextExtends]_vars

\* SpecInherit: the units A and B are loaded, their scripts and the caller
\* bind the variable X in them and declare the target lib, and each unit may
\* extend the other, or itself, with or without the targets.
NextInherit ==
  \/ \E u \in UnitIds : LoadUnitCall(u)
  \/ ScriptEnd
  \/ \E u \in UnitIds, v \in VarNames : DefineCall(u, v)
  \/ \E u \in UnitIds, v \in VarNames : ScriptDefineCall(u, v)
  \/ \E u \in UnitIds : ScriptDeclareCall(u, "lib")
  \/ \E a \in UnitIds, b \in UnitIds, i \in BOOLEAN : ExtendsCall(a, b, i)
  \/ Catch
  \/ Uncaught

SpecInherit == Init /\ [][NextInherit]_vars

\* SpecFind: unit files named after A and B, with the unit-name key or
\* without it, come and go, and the caller looks the two identifiers up.
NextFind ==
  \/ \E u \in UnitIds : FindUnitCall(u)
  \/ \E u \in UnitIds : KeyedChange(u)
  \/ \E u \in UnitIds : BareChange(u)

SpecFind == Init /\ [][NextFind]_vars

\* SpecTask: the units A and B are loaded, each declares a task run and a
\* target lib, and tasks are run by name, plain and qualified by a unit
\* identifier.
TaskNames == {<<"run">>, <<"lib">>} \cup {<<u, ":", "run">> : u \in UnitIds}

NextTask ==
  \/ \E u \in UnitIds : LoadUnitCall(u)
  \/ ScriptEnd
  \/ \E u \in UnitIds, n \in ExtNames : DeclareCall(u, n, KindOf[n], FALSE, <<>>)
  \/ \E u \in UnitIds, n \in TaskNames : RunTaskCall(u, n)
  \/ Catch
  \/ Uncaught

SpecTask == Init /\ [][NextTask]_vars

\* The command line: one run of main, with every combination of the mode
\* switches, with and without targets named, in a workspace with and without
\* Targets; the files may resist removal and ninja may fail.
NextMain ==
  \/ \E flags \in Flags, given \in TargetLists, any \in BOOLEAN : MainCall(flags, given, any)
  \/ MainDryStep
  \/ MainCollectStep
  \/ MainExportStep
  \/ \E outcome \in {"ok", "OSError"} : MainCleanStep(outcome)
  \/ \E res \in {"0", "1"} : MainRunStep(res)

SpecMain == Init /\ [][NextMain]_vars

\* The setup phase: two units with empty scripts; their callers and the hooks
\* declare targets lib, abstract or not, in either unit and a task run in B;
\* declarations are set up ahead by do_setup or requires, and setup_targets is
\* called any number of times.
NextSetup ==
  \/ \E u \in UnitIds : stack = <<>> /\ LoadUnitCall(u)
  \/ ScriptEnd
  \/ \E u \in UnitIds, a \in BOOLEAN :
       TopKind # "load_unit" /\ DeclareCall(u, "lib", "Target", a, <<>>)
  \/ stack = <<>> /\ DeclareCall("B", "run", "Task", FALSE, <<>>)
  \/ \E t \in ObjIds, d \in ObjIds :
       stack = <<>> /\ decl[t].dependencies = <<>> /\ t # d /\ RequiresCall(t, d)
  \/ \E o \in ObjIds : stack = <<>> /\ DoSetupCall(o)
  \/ HookReturn
  \/ SetupTargetsCall
  \/ Catch
  \/ Uncaught

SpecSetup == Init /\ [][NextSetup]_vars

\* The dependency graph: the script of unit A declares the tasks lib, t and
\* run; its caller then gives t and run dependencies among the three, none of
\* them twice, and completes lists of them as main does.
NextGraph ==
  \/ LoadUnitCall("A")
  \/ ScriptEnd
  \/ \E n \in Names : TopKind = "load_unit" /\ DeclareCall("A", n, "Task", FALSE, <<>>)
  \/ \E t \in ObjIds, d \in ObjIds :
       /\ stack = <<>> /\ decl[t].name # "lib" /\ d \notin Range(decl[t].dependencies)
       /\ RequiresCall(t, d)
  \/ \E list \in TargetListsOf(Accessible) : CompleteCall(list)

SpecGraph == Init /\ [][NextGraph]_vars

\* SpecContext: the caller and the scripts of the units A and B load units,
\* with or without an alias, bind the variable X in the units' scopes and in
\* the workspace's, and ask the units' contexts for names, plain and qualified
\* by an alias or a unit identifier; scripts may fail.
QNames ==
  {<<v>> : v \in VarNames \cup Builtins}
    \cup {<<ns, ":", v>> : ns \in AliasNames \cup UnitIds, v \in VarNames}

NextContext ==
  \/ \E u \in UnitIds : LoadCall(u)
  \/ \E a \in UnitIds, b \in UnitIds, al \in {"b", NoVal} : UnitLoadCall(a, b, al)
  \/ ScriptEnd
  \/ ScriptRaise("Exception")
  \/ \E u \in UnitIds, v \in VarNames : DefineCall(u, v)
  \/ \E v \in VarNames : DefineGlobalCall(v)
  \/ \E u \in UnitIds, n \in QNames : GetMacroCall(u, n)
  \/ Catch
  \/ Uncaught

SpecContext == Init /\ [][NextContext]_vars

\* SpecResolve: the caller loads the units A and B, A loads B with or without
\* the alias b, each unit declares a target lib and A a task run, and A's
\* declarations are given requirements by name, plain and qualified by an
\* alias or a unit identifier, from outside the hooks; whoever asked handles a
\* failed lookup.
TNames == {<<"lib">>} \cup {<<ns, ":", "lib">> : ns \in AliasNames \cup UnitIds}

NextResolve ==
  \/ \E u \in UnitIds : stack = <<>> /\ LoadCall(u)
  \/ \E al \in {"b", NoVal} : NoHook /\ UnitLoadCall("A", "B", al)
  \/ ScriptEnd
  \/ \E u \in UnitIds : NoHook /\ DeclareCall(u, "lib", "Target", FALSE, <<>>)
  \/ NoHook /\ DeclareCall("A", "run", "Task", FALSE, <<>>)
  \/ \E t \in ObjIds, n \in TNames :
       NoHook /\ decl[t].unit.id = "A" /\ RequiresNameCall(t, n)
  \/ HookReturn
  \/ Catch

SpecResolve == Init /\ [][NextResolve]_vars

\* SpecBuild: the script of unit A and the caller declare the target lib and
\* call build on it with input and output lists of zero to two files, as one
\* command or one command per pair.
InLists == {<<>>, <<"a.c">>, <<"a.c", "b.c">>, <<"b.c", "a.c">>}

OutLists == {<<"a.o">>, <<"a.o", "b.o">>}

NextBuild ==
  \/ LoadUnitCall("A")
  \/ ScriptEnd
  \/ DeclareCall("A", "lib", "Target", FALSE, <<>>)
  \/ \E t \in ObjIds, ins \in InLists, outs \in OutLists, each \in BOOLEAN :
       BuildCall(t, ins, outs, each)
  \/ Catch
  \/ Uncaught

SpecBuild == Init /\ [][NextBuild]_vars

\* SpecNinja: the script of unit A declares the targets lib, t and run, each
\* requiring at most one earlier declaration; the script and the caller set
\* them up, and the caller gives
\* lib and t up to two command entries (lib object files, t also an entry
\* without outputs and one with an auxiliary header) and exports them.
MaxOut == 2

OutsOf ==
  [lib |-> {<<"a.o">>, <<"a.o", "b.o">>}, t |-> {<<"t.o">>, <<>>}, run |-> {}]

Room(t) == stack = <<>> /\ Len(decl[t].command_data) < MaxOut

NextNinja ==
  \/ LoadUnitCall("A")
  \/ ScriptEnd
  \/ \E n \in Names, r \in ReqLists :
       TopKind = "load_unit" /\ DeclareCall("A", n, "Target", FALSE, r)
  \/ \E o \in ObjIds : NoHook /\ ~decl[o].is_setup /\ DoSetupCall(o)
  \/ HookReturn
  \/ \E t \in ObjIds, n \in Names : \E outs \in OutsOf[n] :
       Room(t) /\ decl[t].name = n /\ BuildCall(t, <<"a.c">>, outs, FALSE)
  \/ \E t \in ObjIds :
       Room(t) /\ decl[t].name = "lib" /\ BuildCall(t, <<"a.c", "b.c">>, <<"a.o", "b.o">>, TRUE)
  \/ \E t \in ObjIds :
       Room(t) /\ decl[t].name = "t" /\ BuildListenedCall(t, <<"a.c">>, <<"t.o">>, <<"x.h">>)
  \/ \E t \in ObjIds : stack = <<>> /\ ExportCall(t)
  \/ Catch
  \/ Uncaught

SpecNinja == Init /\ [][NextNinja]_vars

\* SpecLoad: the caller, the scripts of the units A and B and a static script
\* load units and run the static script in any nesting, look up unit files
\* while files come and go, declare a target lib in the unit that is running,
\* and fail at any point.
NextLoad ==
  \/ \E u \in UnitIds : LoadCall(u)
  \/ \E u \in UnitIds : FindUnitCall(u)
  \/ \E f \in StaticFiles : RunStaticCall(f)
  \/ ScriptEnd
  \/ StaticEnd
  \/ \E x \in {"Exception", "SystemExit"} : ScriptRaise(x)
  \/ \E u \in UnitIds : DiskChange(u)
  \/ TopKind = "load_unit" /\ DeclareCall(stack[Len(stack)].u, "lib", "Target", FALSE, <<>>)
  \/ Catch
  \/ Uncaught

SpecLoad == Init /\ [][NextLoad]_vars

\* SpecExport: one unit whose script declares up to three targets, each
\* requiring at most one earlier declaration; the targets are set up by
\* requires or by the caller and exported at any point, hooks included.
NextExport ==
  \/ LoadUnitCall("A")
  \/ ScriptEnd
  \/ \E n \in Names, r \in ReqLists :
       Cardinality(LiveObjs) < MaxChain /\ DeclareCall("A", n, "Target", FALSE, r)
  \/ \E o \in ObjIds : ~decl[o].is_setup /\ DoSetupCall(o)
  \/ HookReturn
  \/ \E t \in ObjIds : ExportCall(t)
  \/ Catch
  \/ Uncaught

SpecExport == Init /\ [][NextExport]_vars

\* ----------------------------------------------------------------- claims
Events == Range(events)

Last(seq) == seq[Len(seq)]

\* The place of object o in the order the setups started (0: not started).
Started(o) ==
  IF o \in Range(setup_order) THEN CHOOSE i \in 1..Len(setup_order) : setup_order[i] = o ELSE 0

\* C1: is_setup of a declaration goes from False to True at most once and never
\* back (setups counts the times do_setup got past its guard), and a call of
\* do_setup on a declaration that is already set up raises RuntimeError and
\* changes nothing.
C1_SetupOnce ==
  /\ \A o \in LiveObjs : decl[o].setups <= 1 /\ (decl[o].is_setup <=> decl[o].setups = 1)
  /\ \A e \in Events :
       e.op = "do_setup" /\ e.res \in {"enter", "RuntimeError"} =>
         IF e.pre.decl[e.o].is_setup
         THEN e.res = "RuntimeError" /\ e.post = e.pre
         ELSE e.res = "enter" /\ e.post.decl[e.o].is_setup

\* C1 witness: do_setup was called on a set-up declaration and raised.
C1_Witness ==
  \E e \in Events :
    e.op = "do_setup" /\ e.res = "RuntimeError" /\ e.pre.decl[e.o].setups = 1

\* C2 as claimed: when the do_setup of D starts, every declaration in D's
\* dependency list has completed its setup, and they were set up in the order
\* of the list.
C2_DepsCompleteInOrder ==
  \A e \in Events :
    e.op = "do_setup" /\ e.res = "enter" =>
      LET deps == e.pre.decl[e.o].dependencies
      IN /\ \A i \in 1..Len(deps) : e.pre.decl[deps[i]].done
         /\ \A i, j \in 1..Len(deps) : i < j => Started(deps[i]) <= Started(deps[j])

\* C3: when requires(dep) returns, dep is set up (once: a dep that was set up
\* already is not set up again), dep is the last element of the caller's
\* dependency list, and the call changed nothing else.
C3_RequiresEager ==
  \A e \in Events :
    e.op = "requires" /\ e.res = "ok" =>
      /\ e.post.decl[e.d].is_setup
      /\ e.post.decl[e.d].setups = 1
      /\ Last(e.post.decl[e.o].dependencies) = e.d
      /\ e.post.decl = [e.pre.decl EXCEPT ![e.o].dependencies = Append(@, e.d)]

\* C3 witness: the setup that requires started for dep has just returned and
\* requires appended dep behind an earlier dependency.
C3_Witness ==
  \E i \in 1..Len(events) :
    /\ i > 1
    /\ events[i].op = "requires" /\ events[i].res = "ok"
    /\ events[i - 1].op = "do_setup" /\ events[i - 1].res = "ok"
    /\ events[i - 1].o = events[i].d
    /\ Len(events[i].post.decl[events[i].o].dependencies) = 2

\* ------------------------------------------------- claims on abstractness
AbstractRuleBroken(T, U) == U.abstract /\ (~T.abstract \/ T.unit # U.unit)

\* C4 as claimed: in every state no non-abstract declaration lists an abstract
\* declaration in its dependencies, and an abstract declaration is listed only
\* by abstract declarations of its own unit.
C4_AbstractOnlyWithinUnit ==
  \A o \in LiveObjs : \A d \in Range(decl[o].dependencies) :
    ~AbstractRuleBroken(decl[o], decl[d])

\* C5 as claimed: requires(U) with U abstract raises ValueError when the caller
\* T is not abstract or belongs to another unit, leaving every dependency list
\* and setup flag as it found them, and succeeds when T is abstract and of U's
\* unit.
C5_AsClaimed ==
  \A e \in Events :
    e.op = "requires" /\ e.pre.decl[e.d].abstract =>
      IF AbstractRuleBroken(e.pre.decl[e.o], e.pre.decl[e.d])
      THEN e.res = "ValueError" /\ e.post = e.pre
      ELSE e.res = "ok"

\* C5: requires(U) raises ValueError exactly when U is abstract and the caller
\* T is not abstract or belongs to another unit, and then leaves every
\* dependency list and setup flag as it found them; when T is abstract and of
\* U's unit the call goes on to the kind check, raises TypeError if T is a
\* Target and U is not, and otherwise ends with U last in T's dependencies.
C5_AbstractRequires ==
  \A e \in Events :
    e.op = "requires" =>
      LET T == e.pre.decl[e.o]
          U == e.pre.decl[e.d]
      IN /\ e.res \in {"ok", "ValueError", "TypeError"}
         /\ e.res = "ValueError" <=> AbstractRuleBroken(T, U)
         /\ e.res = "TypeError" <=>
              ~AbstractRuleBroken(T, U) /\ T.kind = "Target" /\ U.kind # "Target"
         /\ e.res # "ok" => e.post = e.pre
         /\ e.res = "ok" => Last(e.post.decl[e.o].dependencies) = e.d

\* C5 witness: an abstract declaration of one unit asked for an abstract
\* declaration of another unit and was refused.
C5_Witness ==
  \E e \in Events :
    /\ e.op = "requires" /\ e.res = "ValueError"
    /\ e.pre.decl[e.o].abstract /\ e.pre.decl[e.d].abstract
    /\ e.pre.decl[e.o].unit # e.pre.decl[e.d].unit
    /\ ~e.pre.decl[e.d].is_setup

\* -------------------------------------------------------- claims on extends
ExtendsEvents == {e \in Events : e.op = "extends" /\ e.inherit}

\* C6 as claimed: when A.extends(B) with target inheritance is over, no
\* declaration in A's map depends on an abstract declaration of B's map (each
\* such edge having been pointed at A's clone of the same name).
C6_AbstractEdgesRewritten ==
  \A e \in ExtendsEvents :
    LET A == e.post.targets[e.u]
        B == e.post.targets[e.b]
    IN \A o \in DictValues(A) : \A d \in Range(e.post.decl[o].dependencies) :
         ~(d \in DictValues(B) /\ e.post.decl[d].abstract)

\* C7: after A.extends(B) with inherit_targets, A's map holds under every name
\* of B's map a new object of the same kind, owned by A, not abstract, not set
\* up and without command entries; B's map and B's declarations are as before.
C7_ClonesAreFreshAndConcrete ==
  \A e \in ExtendsEvents :
    LET B == e.pre.targets[e.b]
    IN /\ \A i \in 1..Len(B) :
            /\ DictHas(e.post.targets[e.u], B[i].name)
            /\ LET c == DictGet(e.post.targets[e.u], B[i].name)
                   src == e.pre.decl[B[i].obj]
               IN /\ ~e.pre.decl[c].live
                  /\ e.post.decl[c].live
                  /\ e.post.decl[c].kind = src.kind
                  /\ e.post.decl[c].name = src.name
                  /\ e.post.decl[c].unit.id = e.u
                  /\ ~e.post.decl[c].abstract
                  /\ ~e.post.decl[c].is_setup
                  /\ e.post.decl[c].command_data = <<>>
            /\ e.post.decl[B[i].obj] = e.pre.decl[B[i].obj]
       /\ e.post.targets[e.b] = B

\* C7 witness: extends returned after cloning an abstract target that was set
\* up and had a command entry.
C7_Witness ==
  \E e \in ExtendsEvents :
    /\ e.res = "none"
    /\ \E o \in DictValues(e.pre.targets[e.b]) :
         /\ e.pre.decl[o].abstract
         /\ e.pre.decl[o].is_setup
         /\ e.pre.decl[o].command_data # <<>>

\* --------------------------------------------------------- claims on export
\* The declarations that export of t depends on: t and the transitive closure
\* of its dependencies.
Closure(snap, t) == Reach(snap, {t})

\* C8: export goes through only if the target and every declaration in the
\* transitive closure of its dependencies is set up (is_setup), and raises
\* RuntimeError if any of them is not.
C8_ExportNeedsSetupClosure ==
  \A e \in Events :
    e.op = "export" =>
      IF \A o \in Closure(e.pre, e.o) : e.pre.decl[o].is_setup
      THEN e.res # "RuntimeError"
      ELSE e.res = "RuntimeError" /\ e.post = e.pre

\* C8 witness: a set-up target whose dependency has a dependency of its own
\* was exported.
C8_Witness ==
  \E e \in Events :
    /\ e.op = "export" /\ e.res = "ok"
    /\ \E d \in Range(e.pre.decl[e.o].dependencies) : e.pre.decl[d].dependencies # <<>>

\* ------------------------------------- claims on the one-shot setup phase
\* C9 as claimed: whenever export passes its is_setup checks, the setup of the
\* target and of each of its dependencies has run to completion.
C9_ExportSeesCompleteSetup ==
  \A e \in Events :
    e.op = "export" /\ e.res # "RuntimeError" =>
      /\ e.pre.decl[e.o].done
      /\ \A d \in Range(e.pre.decl[e.o].dependencies) : e.pre.decl[d].done

\* The do_setup of o is running: its hook is on the call stack.
Running(o) == \E i \in 1..Len(stack) : stack[i].k = "hook" /\ stack[i].o = o

\* C10 as claimed: a command entry is added to a Target only while its own
\* do_setup runs, and a dependency only then or while it is being declared.
C10_ChangesOnlyDuringSetup ==
  \A e \in Events :
    /\ e.op = "build" /\ e.res = "ok" => Running(e.o)
    /\ e.op = "requires" /\ e.res = "ok" =>
         Running(e.o) \/ \A u \in UnitIds : e.o \notin DictValues(e.pre.targets[u])

\* --------------------------------------------------------- claims on loading
WsEvents(op) == {e \in Events : e.op = op}

\* The event e is the end of a script that raised (the identifier or file was
\* registered when the exception came out of it).
ScriptFailed(e, registry) == e.res \notin {"ok", "cached"} /\ e.u \in registry

LoadFrames == {i \in 1..Len(stack) : stack[i].k = "load_unit"}

\* What C11 says of the end e of a failed script.
EntryRemoved(e) ==
  /\ Range(e.wpost.units) =
       Range(e.wpre.units) \ (IF e.op = "load_unit" THEN {e.u} ELSE {})
  /\ e.wpost.statics = e.wpre.statics \ (IF e.op = "load_unit" THEN {} ELSE {e.u})
  /\ stack # <<>> => exc = e.res

FailedScripts ==
  {e \in WsEvents("load_unit") : ScriptFailed(e, Range(e.wpre.units))}
    \cup {e \in WsEvents("run_static_unit") : ScriptFailed(e, e.wpre.statics)}

StepKeepsUnit ==
  \A u \in UnitIds : u \in Range(units) /\ u \in Range(units') => ugen'[u] = ugen[u]

\* A load_unit that found the identifier registered changed nothing and
\* returned the registered Unit, the one the first call returned.
CachedReturns ==
  \A e \in WsEvents("load_unit") :
    /\ e.res = "cached" =>
         /\ e.wpost = e.wpre
         /\ e.ret = [id |-> e.u, gen |-> e.wpre.ugen[e.u]]
    /\ e.res = "ok" => e.ret = [id |-> e.u, gen |-> ugen[e.u]]

C14_FindUnitScansOnce ==
  \A e \in WsEvents("find_unit") :
    IF e.u \in e.wpre.ident_cache
    THEN e.res = "none" /\ e.wpost = e.wpre
    ELSE /\ e.wpost.scans = e.wpre.scans + 1
         /\ e.res = (IF e.u \in e.wpost.ident_cache THEN "none" ELSE "UnitNotFoundError")

\* C14 witness: find_unit scanned once and raised UnitNotFoundError.
C14_Witness ==
  \E e \in WsEvents("find_unit") :
    e.res = "UnitNotFoundError" /\ e.wpost.scans = e.wpre.scans + 1

\* ------------------------------------------------------ claims on namespaces
\* The get_macro calls of this step that asked unit A's context for al:X, with
\* al an alias in A of another, registered unit that has X bound.
AliasLookups ==
  {e \in Events : /\ e.op = "get_macro"
                  /\ Len(e.name) = 3
                  /\ e.name[1] \in AliasNames
                  /\ aliases[e.u][e.name[1]] \in Registered \ {e.u}
                  /\ Bound(scope[aliases[e.u][e.name[1]]], e.name[3])}

\* C15: when unit A has the alias b for unit B, asking A's context for b:X
\* answers with the value X is bound to in B, never with A's own X.
C15_AliasResolvesOtherUnit ==
  \A e \in AliasLookups : e.res = scope[aliases[e.u][e.name[1]]][e.name[3]]

\* The target lookups of this step, each with the unit whose declaration the
\* namespace rules name: the calling unit for a plain name, the unit an alias of
\* the calling unit stands for for a name qualified by the alias.
NamedUnit(e) == IF Len(e.name) = 1 THEN e.u ELSE aliases[e.u][e.name[1]]

TargetLookups ==
  {e \in Events : /\ e.op = "get_target"
                  /\ (Len(e.name) = 3 => e.name[1] \in AliasNames)
                  /\ NamedUnit(e) \in Registered
                  /\ DictHas(targets[NamedUnit(e)], Last(e.name))}

\* C16: a requirement given as a string is resolved by the namespace rules: a
\* plain name is the calling unit's declaration of that name, and al:name, with
\* al an alias in the calling unit (self included), is the declaration of that
\* name in the unit the alias stands for.
C16_NamesResolveByNamespace ==
  \A e \in TargetLookups :
    e.res = Found(DictGet(targets[NamedUnit(e)], Last(e.name)))

\* --------------------------------------------------------- claims on build
BuildEvents == {e \in Events : e.op = "build"}

Cmds(snap, o) == snap.decl[o].command_data

\* C17: a build call that returns appends, with each=False, exactly one entry
\* holding the whole input list and the whole output list, and with each=True
\* and n inputs and n outputs exactly n entries, the i-th holding the i-th
\* input and the i-th output; the entries from before the call are unchanged
\* and in place.
C17_BuildAppendsEntries ==
  \A e \in BuildEvents :
    e.res = "ok" =>
      LET old == Cmds(e.pre, e.o)
          new == Cmds(e.post, e.o)
          n == IF e.each THEN Len(e.ins) ELSE 1
      IN /\ Len(new) = Len(old) + n
         /\ SubSeq(new, 1, Len(old)) = old
         /\ e.each => Len(e.ins) = Len(e.outs)
         /\ \A i \in 1..n :
              /\ new[Len(old) + i].inputs = IF e.each THEN <<e.ins[i]>> ELSE e.ins
              /\ new[Len(old) + i].outputs = IF e.each THEN <<e.outs[i]>> ELSE e.outs

\* C17 witness: a target that had an entry was built with each=True and two
\* inputs and outputs.
C17_Witness ==
  \E e \in BuildEvents :
    e.res = "ok" /\ e.each /\ Len(e.ins) = 2 /\ Len(Cmds(e.pre, e.o)) = 1

\* C18: a build call with each=True and different numbers of inputs and
\* outputs raises ValueError and leaves the target's entries as they were.
C18_MismatchAppendsNothing ==
  \A e \in BuildEvents :
    e.each /\ Len(e.ins) # Len(e.outs) =>
      e.res = "ValueError" /\ Cmds(e.post, e.o) = Cmds(e.pre, e.o)

\* C18 witness: such a call was made on a target with an entry, with at least
\* one input and one output.
C18_Witness ==
  \E e \in BuildEvents :
    /\ e.each /\ Len(e.ins) # Len(e.outs) /\ e.res = "ValueError"
    /\ Len(e.ins) > 0 /\ Len(Cmds(e.pre, e.o)) = 1

\* -------------------------------------------------------- claims on export
\* The exports of this step that went through.
Exported == {e \in Events : e.op = "export" /\ e.res = "ok"}

\* The rule, build and phony statements an export wrote, in order.
Statements(e) == SelectSeq(e.out, LAMBDA st : st.k # "comment")

\* The files the entries of the declaration o put out, in the snapshot.
OutputsOf(snap, o) ==
  UNION {Range(Cmds(snap, o)[i].outputs) : i \in 1..Len(Cmds(snap, o))}

\* C19: the inputs of the build statement of every command entry of an
\* exported target are the entry's own inputs, then the outputs of all entries
\* of the target's direct dependencies, each once and those of no other
\* declaration, then the entry's auxiliary files.
C19_BuildInputs ==
  \A e \in Exported :
    LET cd == Cmds(e.pre, e.o)
        U == UNION {OutputsOf(e.pre, d) : d \in Range(e.pre.decl[e.o].dependencies)}
    IN \A i \in 1..Len(cd) :
         /\ Statements(e)[2 * i].k = "build"
         /\ Statements(e)[2 * i].outs = cd[i].outputs
         /\ \E q \in Orders(U) :
              Statements(e)[2 * i].ins = cd[i].inputs \o q \o cd[i].auxiliary

\* C19 witness: a target was exported that has an entry with an auxiliary
\* file and outputs of its own, and a dependency two entries of which put out
\* the same file.
C19_Witness ==
  \E e \in Exported :
    /\ \E i \in 1..Len(Cmds(e.pre, e.o)) : Cmds(e.pre, e.o)[i].auxiliary # <<>>
    /\ \E d \in Range(e.pre.decl[e.o].dependencies) :
         /\ Len(Cmds(e.pre, d)) = 2
         /\ Range(Cmds(e.pre, d)[1].outputs) \cap Range(Cmds(e.pre, d)[2].outputs) # {}
         /\ Cardinality(OutputsOf(e.pre, d)) = 2

\* C20: an export that goes through writes, entry by entry in their order,
\* one rule and one build statement per command entry, the rule of entry i
\* named by the sanitized target identifier and the four-digit index i, no two
\* alike, and after them one phony statement from the sanitized identifier to
\* the outputs of all the target's own entries.
C20_RulesAndPhony ==
  \A e \in Exported :
    LET cd == Cmds(e.pre, e.o)
        n == Len(cd)
        D == e.pre.decl[e.o]
        st == Statements(e)
    IN /\ Len(st) = 2 * n + 1
       /\ \A i \in 1..n :
            /\ st[2 * i - 1].k = "rule" /\ st[2 * i].k = "build"
            /\ st[2 * i - 1].name = <<D.unit.id, "_", D.name, "_">> \o Fmt04(i - 1)
            /\ st[2 * i].name = st[2 * i - 1].name
            /\ st[2 * i].outs = cd[i].outputs
            /\ \A j \in 1..n : j # i => st[2 * j - 1].name # st[2 * i - 1].name
       /\ st[2 * n + 1].k = "phony"
       /\ st[2 * n + 1].name = <<D.unit.id, "_", D.name>>
       /\ Range(st[2 * n + 1].ins) = OutputsOf(e.pre, e.o)

\* C20 witness: a target with two command entries was exported.
C20_Witness == \E e \in Exported : Len(Cmds(e.pre, e.o)) = 2

\* ------------------------------------------------------- claims on extends
\* The extends calls of this step that returned.
Extended == {e \in Events : e.op = "extends" /\ e.res = "none"}

Declared == {e \in Events : e.op = "declare"}

\* A declaration was started in this step: a call of a declarator is pending
\* on an object that did not exist before.
Starting(i) ==
  /\ i \in 1..Len(stack') /\ stack'[i].k = "declare"
  /\ ~decl[stack'[i].o].live

NameFreeAtStart ==
  \A i \in 1..MaxDepth :
    Starting(i) => ~DictHas(targets[stack'[i].u], decl'[stack'[i].o].name)

\* Every object in a declaration map is a finished declaration.
Pending(o) == \E i \in 1..Len(stack) : stack[i].k = "declare" /\ stack[i].o = o

MapsHoldFinished ==
  \A u \in UnitIds : \A o \in DictValues(targets[u]) : decl[o].live /\ ~Pending(o)

DeclareOutcomes ==
  \A e \in Declared :
    /\ e.o = None => e.res = "ValueError" /\ DictHas(e.pre.targets[e.u], e.name)
    /\ e.res # "ok" => e.post.targets = e.pre.targets
    /\ e.res = "ok" =>
         e.post.targets = [e.pre.targets EXCEPT ![e.u] = DictSet(@, e.name, e.o)]

\* C22: a declaration under a name that is taken raises ValueError and leaves
\* the declaration map as it was, a declaration is only begun under a free
\* name, one whose requirement is rejected leaves the map as it was, and the
\* map gains the new declaration when the declaration is complete, not before.
C22_DeclareAllOrNothing ==
  [](DeclareOutcomes /\ MapsHoldFinished) /\ [][NameFreeAtStart]_vars

\* C22 witness: a declaration failed because its requirement was rejected.
C22_Witness ==
  \E e \in Declared : e.o # None /\ e.res = "TypeError"

\* ---------------------------------------------------- claims on discovery
\* C23: a lookup of the identifier that the name of a unit file without the
\* unit-name key gives finds the file.
C23_FoundByFilename ==
  \A e \in Events :
    e.op = "find_unit" /\ e.u \in bare /\ metadata_cache[e.u] = "bare" => e.res = "none"

\* ------------------------------------------- claims on kinds of dependency
\* The requires calls of this step in which a Target asked for a Task.
TaskAsked ==
  {e \in Events : /\ e.op = "requires"
                  /\ e.pre.decl[e.o].kind = "Target" /\ e.pre.decl[e.d].kind = "Task"}

\* No Task is in the dependency list of a Target.
TargetsNeedTargets ==
  \A o \in LiveObjs :
    decl[o].kind = "Target" => \A d \in Range(decl[o].dependencies) : decl[d].kind = "Target"

\* C24 as claimed: requires on a Target turns every Task down with TypeError.
C24_AsClaimed ==
  TargetsNeedTargets /\ \A e \in TaskAsked : e.res = "TypeError" /\ e.post = e.pre

\* C24: no Task is ever in the dependency list of a Target, extends cloning
\* included: requires on a Target turns a Task down and leaves the dependency
\* lists as they were, with ValueError when the abstract rule refuses the Task
\* first and with TypeError otherwise; a Task that asks for a Task is not
\* turned down for its kind.
C24_TargetsDependOnTargets ==
  /\ TargetsNeedTargets
  /\ \A e \in TaskAsked :
       /\ e.res = (IF AbstractRuleBroken(e.pre.decl[e.o], e.pre.decl[e.d])
                   THEN "ValueError" ELSE "TypeError")
       /\ e.post = e.pre
  /\ \A e \in Events :
       e.op = "requires" /\ e.pre.decl[e.o].kind = "Task" => e.res # "TypeError"

\* C24 witness: a Target asked for a concrete Task and was refused.
C24_Witness ==
  \E e \in TaskAsked : e.res = "TypeError" /\ ~e.pre.decl[e.d].abstract

\* ------------------------------------------------------- claims on run_task
\* The unit a task name names: the one of its namespace, or the calling unit.
TaskUnit(e) == IF Len(e.name) = 1 THEN e.u ELSE e.name[1]

TaskThere(e) ==
  /\ TaskUnit(e) \in Registered
  /\ DictHas(targets[TaskUnit(e)], Last(e.name))
  /\ decl[DictGet(targets[TaskUnit(e)], Last(e.name))].kind = "Task"

\* C25: run_task(ns:name) calls the function of the Task registered as name
\* in unit ns, run_task(name) that of the Task of the calling unit, and
\* ValueError is raised only when there is no Task of that name there.
C25_RunTaskResolvesNamespace ==
  \A e \in Events :
    e.op = "run_task" /\ TaskThere(e) =>
      e.res = Found(DictGet(targets[TaskUnit(e)], Last(e.name)))

\* ------------------------------------------------- claims on the command line
MainDone == main.pc = "done" /\ main.ret # "parser.error"
QuietMode == main.argv.dry \/ main.argv.clean \/ main.argv.clean_with_dependencies

\* What all the modes keep, whatever else happens: a run with --dry, --clean
\* or --clean-with-dependencies never writes the build-definition file and
\* never calls ninja, a dry run ends with 0 right after the setup, and a run
\* with --export ends with 0 and has called neither ninja nor a task.
ModesQuiet ==
  /\ QuietMode => ~main.written /\ main.runner = 0
  /\ MainDone /\ main.argv.dry => main.ret = "0" /\ main.tasks = 0 /\ ~main.removed
  /\ MainDone /\ main.argv.export => main.ret = "0" /\ main.runner = 0 /\ main.tasks = 0

\* C26 as the claim states it: a run with --dry, --clean or
\* --clean-with-dependencies never writes the build-definition file and never
\* calls ninja; a dry run ends with 0 after the setup, a clean run ends with 0
\* after removing the output files, and a run with --export has written the
\* file and ends with 0 without calling ninja or any task.
C26_AsClaimed ==
  /\ ModesQuiet
  /\ MainDone /\ ~main.argv.dry /\ (main.argv.clean \/ main.argv.clean_with_dependencies)
       => main.ret = "0" /\ main.removed = Cleanable(main)
  /\ MainDone /\ main.argv.export => main.written

\* C26: a run with --dry, --clean or --clean-with-dependencies never writes
\* the build-definition file and never calls ninja; a dry run ends with 0
\* after the setup; a clean run ends with 0 after removing the output files,
\* or with exit status 1 when a file could not be removed; a run with --export
\* ends with 0 without calling ninja or any task, and it has written the file
\* unless no target was named and the workspace has no Target.
C26_ModesWriteAndRunNothing ==
  /\ ModesQuiet
  /\ MainDone /\ ~main.argv.dry /\ (main.argv.clean \/ main.argv.clean_with_dependencies)
       => \/ main.ret = "0" /\ main.removed = Cleanable(main)
          \/ main.ret = "exit 1" /\ Cleanable(main) /\ ~main.removed
  /\ MainDone /\ main.argv.export
       => (main.written <=> ~(main.targets = <<>> /\ ~main.has_targets))

\* A clean run that named a Target and a Task has removed the output files
\* and is over.
C26_Witness ==
  /\ MainDone /\ main.argv.clean /\ ~main.argv.dry /\ main.removed
  /\ main.targets = <<"Task", "Target">>

\* ------------------------------------------ claims on the script's own API
\* What a unit's script did through the names define and target of its scope
\* in this step; res is the unit whose context or declaration map took it.
ScriptCalls == {e \in Events : e.op \in {"script_define", "script_declare"}}

\* C27: after A.extends(B) the entries of A's script scope that expose the
\* declaration API are the ones they were before the call, and they still
\* operate on A: what A's script defines or declares afterwards is stored in
\* A's context and A's declaration map, not in B's.
C27_ApiStaysOwn ==
  /\ \A e \in Extended : \A k \in ApiNames :
       e.cpost.scope[e.u][k] = e.cpre.scope[e.u][k]
  /\ \A e \in ScriptCalls : e.res = e.u

\* ------------------------------------------------- claims on setup_targets
\* The declarations in the maps of the registered units.
Mapped == UNION {{targets[u][i].obj : i \in 1..Len(targets[u])} : u \in Registered}

SetupReturned == \E e \in Events : e.op = "setup_targets" /\ e.res = "ok"

\* setup_targets has returned: every declaration of a registered unit that is
\* not abstract is set up, and its do_setup ran once.
AllSetUpOnReturn ==
  SetupReturned =>
    \A o \in Mapped : ~decl[o].abstract => decl[o].is_setup /\ decl[o].setups = 1

\* The loop of setup_targets calls do_setup only on declarations that are
\* neither set up nor abstract, so that none of its calls raises.
LoopSkips ==
  \A e \in Events :
    e.op = "visit" => ~e.pre.decl[e.o].is_setup /\ ~e.pre.decl[e.o].abstract

\* setup_targets is called again right after it has returned: the second call
\* returns too, and nothing changed.
SecondCallIdle ==
  SetupReturned /\ (\E e \in Range(events') : e.op \in {"setup_targets", "visit"})
    => /\ \A e \in Range(events') : e.op = "setup_targets" /\ e.res = "ok"
       /\ <<decl, units, targets, setup_order, stack, exc>>' =
            <<decl, units, targets, setup_order, stack, exc>>

\* C28: when setup_targets returns normally, every declaration of every
\* registered unit that is not abstract is set up and had do_setup run exactly
\* once; declarations that were set up before are skipped and abstract ones are
\* never set up by it; calling setup_targets a second time changes nothing and
\* raises nothing.
C28_SetupTargetsCompletes ==
  [](AllSetUpOnReturn /\ LoopSkips) /\ [][SecondCallIdle]_vars

\* --------------------------------------------- claims on the list of targets
CompleteCalls == {e \in Events : e.op = "complete_target_list"}

NoDuplicates(list) == \A i, j \in 1..Len(list) : list[i] = list[j] => i = j

\* C29: for every duplicate-free list of declarations over an acyclic
\* dependency graph, complete_target_list ends and leaves a list that holds
\* every declaration of the list and every direct or transitive dependency of
\* them exactly once, each declaration behind all of its dependencies.
C29_CompleteListOrdered ==
  \A e \in CompleteCalls :
    NoDuplicates(e.targets) /\ ~Cyclic(e.pre, Range(e.targets)) =>
      /\ e.res = "ok"
      /\ NoDuplicates(e.list)
      /\ Range(e.list) = Reach(e.pre, Range(e.targets))
      /\ \A i \in 1..Len(e.list) :
           \A d \in Range(e.pre.decl[e.list[i]].dependencies) :
             \E j \in 1..(i - 1) : e.list[j] = d

\* Two declarations were listed, the first of them depending on the second and
\* both on a third one: the list came back with the three in order.
C29_Witness ==
  \E e \in CompleteCalls :
    /\ e.res = "ok" /\ Len(e.targets) = 2 /\ Len(e.list) = 3
    /\ e.targets[2] \in Range(e.pre.decl[e.targets[1]].dependencies)
    /\ \A i \in 1..2 : e.list[1] \in Range(e.pre.decl[e.targets[i]].dependencies)
    /\ e.list = <<e.list[1], e.targets[2], e.targets[1]>>

\* -------------------------------------------- claims on the dependency graph
\* C30: the dependency graph over all declarations is acyclic in every
\* reachable state: whatever is declared, required (from inside a setup hook
\* too) or extended, no declaration is a direct or transitive dependency of
\* itself.
C30_GraphAcyclic == ~Cyclic(S, LiveObjs)

\* ------------------------------------------------ claims on the eager setup
\* The places on the call stack where a setup hook is running.
HookFrames == {i \in 1..Len(stack) : stack[i].k = "hook"}

\* A requires call whose requirement was being set up when the call was made.
RequiredRunning ==
  {e \in Events : /\ e.op = "requires"
                  /\ e.pre.decl[e.d].is_setup /\ ~e.pre.decl[e.d].done}

\* C31: the eager setup that requires triggers ends: the do_setup body of a
\* declaration is entered at most once, so the nested do_setup calls are calls
\* on different declarations, no more of them than there are declarations,
\* and a hook that requires a declaration whose setup is under way (its own
\* or that of a declaration requiring it) gets it appended without a further
\* do_setup.
C31_EagerSetupEnds ==
  /\ \A o \in LiveObjs : decl[o].setups <= 1
  /\ \A i, j \in HookFrames : stack[i].o = stack[j].o => i = j
  /\ Cardinality(HookFrames) <= Cardinality(LiveObjs)
  /\ \A e \in RequiredRunning :
       e.res = "ok" => e.post.decl[e.d].setups = e.pre.decl[e.d].setups

\* The hook of one declaration required a second one, whose hook has now
\* required the first: the call returned while both setups are under way.
C31_Witness ==
  \E e \in RequiredRunning :
    /\ e.res = "ok" /\ e.o # e.d
    /\ \E i, j \in HookFrames : i < j /\ stack[i].o = e.d /\ stack[j].o = e.o

\* ------------------------------------------- claims on what dependencies name
\* The declaration d is the one registered under its own name in its unit,
\* and that Unit object is the one in the workspace registry.
RegisteredDecl(d) ==
  /\ decl[d].live
  /\ decl[d].unit.id \in Registered
  /\ decl[d].unit = UnitObj(S, decl[d].unit.id)
  /\ DictHas(targets[decl[d].unit.id], decl[d].name)
  /\ DictGet(targets[decl[d].unit.id], decl[d].name) = d

\* C32: in every reachable state each element of the dependency list of a
\* declaration registered in a registered unit is the declaration registered
\* under its own name in a unit that is in the workspace registry: neither
\* the rollback of a failed load nor extends leaves a registered declaration
\* depending on an unregistered or replaced one.
C32_DependenciesRegistered ==
  \A o \in Mapped : \A d \in Range(decl[o].dependencies) : RegisteredDecl(d)

\* ------------------------------------------------- claims on the alias self
\* C33: in every reachable state the alias self of each unit's alias table
\* stands for that unit's own identifier: neither load with an alias nor
\* extends, which merges the other unit's alias table, changes it.
C33_SelfIsOwnUnit ==
  \A u \in Registered \cap UnitIds : aliases[u]["self"] = u

====
